---- MODULE Spec2Model ----
(***************************************************************************)
(* A model of thicom's Anonymizer (src/anonymizer.py): the alias store     *)
(* (an OrderedDict of patient name -> 'Subject<N>'), its creation and      *)
(* update from the patient directories found on disk, and the run started  *)
(* by the constructor (confirmation, image anonymization, directory        *)
(* renaming, cleanup, logs and the pickled store).                         *)
(*                                                                         *)
(* Strings are sequences of character codes (ASCII), so that str(),        *)
(* lower(), '+' and difflib.SequenceMatcher are computed, not assumed.     *)
(***************************************************************************)
EXTENDS Integers, Sequences, FiniteSets, TLC

VARIABLES
    fs,       \* the directory trees: root path -> listing (in os.listdir order)
              \* of patient directories, each with the DICOM images under it
    pkl,      \* the pickle files of the well-known locations and their content
    self,     \* the fields of the Anonymizer object
    args,     \* the constructor's arguments that are not kept as fields
    pc,       \* position of the running call
    loop,     \* the iteration state of anonymize(): path index, directories
              \* and images still to visit
    exc,      \* the exception that ended the call ("none" while there is none)
    out,      \* the artifacts written by the run (log files)
    hist      \* what the last operation was applied to (read by the properties)

vars == <<fs, pkl, self, args, pc, loop, exc, out, hist>>

-----------------------------------------------------------------------------
(* Bounds of the model.                                                    *)

\* patient directories in all trees together, when the store is used alone
MaxDirs == 3
\* patient directories in all trees together, in a run of the constructor
MaxRunDirs == 2

\* files in the patient directories of a run that keeps to the directories
MaxOtherFiles == 1
\* DICOM images in all trees together
MaxImgs == 2

-----------------------------------------------------------------------------
(* Strings.                                                                *)

\* "Subject"
SubjectStr == <<83, 117, 98, 106, 101, 99, 116>>

\* the characters '0'..'9'
Digit(d) == 48 + d

\* str(n) for a natural number n
RECURSIVE Str(_)
Str(n) == IF n < 10 THEN <<Digit(n)>> ELSE Str(n \div 10) \o <<Digit(n % 10)>>

\* 'Subject' + str(x)
Alias(x) == SubjectStr \o Str(x)

\* one character of str.lower()
LowerChar(c) == IF c >= 65 /\ c <= 90 THEN c + 32 ELSE c

\* str.lower()
Lower(s) == [i \in 1..Len(s) |-> LowerChar(s[i])]

\* the patient names of the model: "Ann", "Anna", "Bob"
Ann == <<65, 110, 110>>
Anna == <<65, 110, 110, 97>>
Bob == <<66, 111, 98>>

\* the names patient directories carry on disk
DirNames == {Ann, Anna, Bob}

Min(x, y) == IF x < y THEN x ELSE y

\* difflib.SequenceMatcher.find_longest_match without junk: the longest block
\* a[i..i+k-1] = b[j..j+k-1]; of the longest the one starting earliest in a,
\* and of those the one starting earliest in b. <<0, 0, 0>> when there is none.
FindLongestMatch(a, b) ==
    LET blocks == {t \in (1..Len(a)) \X (1..Len(b)) \X (1..Min(Len(a), Len(b))) :
                      /\ t[1] + t[3] - 1 <= Len(a)
                      /\ t[2] + t[3] - 1 <= Len(b)
                      /\ SubSeq(a, t[1], t[1] + t[3] - 1) = SubSeq(b, t[2], t[2] + t[3] - 1)}
    IN  IF blocks = {} THEN <<0, 0, 0>>
        ELSE CHOOSE t \in blocks : \A u \in blocks :
                \/ t[3] > u[3]
                \/ t[3] = u[3] /\ t[1] < u[1]
                \/ t[3] = u[3] /\ t[1] = u[1] /\ t[2] <= u[2]

\* the sum of the sizes of get_matching_blocks(): the longest match, then the
\* matches to its left and to its right
RECURSIVE Matches(_, _)
Matches(a, b) ==
    IF a = <<>> \/ b = <<>> THEN 0
    ELSE LET m == FindLongestMatch(a, b)
         IN  IF m[3] = 0 THEN 0
             ELSE m[3]
                  + Matches(SubSeq(a, 1, m[1] - 1), SubSeq(b, 1, m[2] - 1))
                  + Matches(SubSeq(a, m[1] + m[3], Len(a)), SubSeq(b, m[2] + m[3], Len(b)))

\* SequenceMatcher(None, a, b).ratio() > self.threshold, with ratio = 2.0*M/T
\* (1.0 when both are empty) and the threshold ThresholdNum/ThresholdDen = 0.7
ThresholdNum == 7
ThresholdDen == 10
RatioAboveThreshold(a, b) ==
    LET T == Len(a) + Len(b)
    IN  IF T = 0 THEN ThresholdDen > ThresholdNum
        ELSE 2 * Matches(a, b) * ThresholdDen > ThresholdNum * T

-----------------------------------------------------------------------------
(* The file system.                                                        *)

\* the root paths handed to the Anonymizer
Roots == {"r1", "r2"}

\* a path that does not exist, and an existing regular file that is neither a
\* DICOM image nor named 'dicomdir'
NoPath == "nopath"
FilePath == "afile"

Exists(f, p) == p \in Roots \/ p = FilePath
IsDir(f, p) == p \in Roots

\* [x for x in os.listdir(p) if os.path.isdir(x)]: the names of the patient
\* directories of root p, in listing order
ListDirs(f, p) == [i \in 1..Len(f[p]) |-> f[p][i].name]

Range(s) == {s[i] : i \in 1..Len(s)}

NoDuplicates(s) == \A i, j \in 1..Len(s) : i # j => s[i] # s[j]

-----------------------------------------------------------------------------
(* The alias store: an OrderedDict as a sequence of [k, v] items.          *)

Keys(d) == {d[i].k : i \in 1..Len(d)}

\* d[key], for a key of d
Get(d, key) == d[CHOOSE i \in 1..Len(d) : d[i].k = key].v

\* d[key] = val: an existing key keeps its place and takes the new value, a
\* new key is appended
SetItem(d, key, val) ==
    IF key \in Keys(d)
    THEN [i \in 1..Len(d) |-> IF d[i].k = key THEN [k |-> key, v |-> val] ELSE d[i]]
    ELSE Append(d, [k |-> key, v |-> val])

\* d.update(zip(ks, vs)), item by item in the order of the lists
RECURSIVE DictUpdate(_, _, _)
DictUpdate(d, ks, vs) ==
    IF ks = <<>> \/ vs = <<>> THEN d
    ELSE DictUpdate(SetItem(d, Head(ks), Head(vs)), Tail(ks), Tail(vs))

\* ['Subject' + str(x) for x in range(lo, hi + 1)]
Ids(lo, hi) == [i \in 1..(IF hi >= lo THEN hi - lo + 1 ELSE 0) |-> Alias(lo + i - 1)]

\* (mutant) the ids of a new store numbered from 0
ZipNewFromZero(patients) == DictUpdate(<<>>, patients, Ids(0, Len(patients) - 1))

\* OrderedDict(zip(patients, ids)) with ids = Subject1..Subject<len(patients)>
ZipNew(patients) == DictUpdate(<<>>, patients, Ids(1, Len(patients)))

\* A path argument is a string or a list of strings: [list |-> FALSE, p |-> <<s>>]
\* is the string s, [list |-> TRUE, p |-> <<s1, ..>>] the list.
StrArg(p) == [list |-> FALSE, p |-> <<p>>]
ListArg(ps) == [list |-> TRUE, p |-> ps]

\* the answers to the menu of update_dict: a number (key.isdigit()), several
\* numbers separated by blanks, or anything else
DigitKey(n) == [kind |-> "digit", ns |-> <<n>>]
ListKey(ns) == [kind |-> "list", ns |-> ns]
OtherKey == [kind |-> "other", ns |-> <<>>]

\* (mutant) update_dict without the test 'x not in self.dct.keys()'
RECURSIVE NewPatientsUnfiltered(_, _, _)
NewPatientsUnfiltered(f, d, ps) ==
    IF ps = <<>> THEN [exc |-> "none", patients |-> <<>>]
    ELSE IF ~IsDir(f, Head(ps)) THEN [exc |-> "OSError", patients |-> <<>>]
    ELSE LET rest == NewPatientsUnfiltered(f, d, Tail(ps))
         IN  [exc |-> rest.exc, patients |-> ListDirs(f, Head(ps)) \o rest.patients]

\* update_dict, lines 261-266: the directories of the paths that are no keys
\* yet; "OSError" at the first path that does not exist (or that os.chdir
\* refuses because it is no directory)
RECURSIVE NewPatients(_, _, _)
NewPatients(f, d, ps) ==
    IF ps = <<>> THEN [exc |-> "none", patients |-> <<>>]
    ELSE IF ~IsDir(f, Head(ps)) THEN [exc |-> "OSError", patients |-> <<>>]
    ELSE LET rest == NewPatients(f, d, Tail(ps))
         IN  [exc |-> rest.exc,
              patients |-> SelectSeq(ListDirs(f, Head(ps)), LAMBDA x : x \notin Keys(d))
                            \o rest.patients]

\* patients[int(i) - 1] of Python: index -1 is the last element
PyItem(patients, n) == IF n = 0 THEN patients[Len(patients)] ELSE patients[n]

\* update_dict, lines 269-288: the patients the user keeps. ret: the call
\* returns at once (answer 0); "IndexError" for a number beyond the menu.
Select(patients, no_check, key) ==
    IF patients = <<>> \/ no_check \/ key.kind = "other"
    THEN [exc |-> "none", ret |-> FALSE, patients |-> patients]
    ELSE IF key.kind = "digit" /\ key.ns[1] = 0
    THEN [exc |-> "none", ret |-> TRUE, patients |-> patients]
    ELSE IF \E i \in 1..Len(key.ns) : key.ns[i] > Len(patients)
    THEN [exc |-> "IndexError", ret |-> FALSE, patients |-> patients]
    ELSE [exc |-> "none", ret |-> FALSE,
          patients |-> [i \in 1..Len(key.ns) |-> PyItem(patients, key.ns[i])]]

\* (mutant) update_dict replacing the store by the new items instead of
\* updating it
AssignIdsReplacing(d, patients) ==
    LET last == Len(d)
    IN  DictUpdate(<<>>, patients, Ids(last + 1, last + Len(patients)))

\* update_dict, lines 290-293: the new ids continue after len(self.dct)
AssignIds(d, patients) ==
    LET last == Len(d)
    IN  DictUpdate(d, patients, Ids(last + 1, last + Len(patients)))

\* update_dict(pts, no_check) on the store d with the user's answer key:
\* the store after the call, the exception that ended it, the patients
\* accepted and the number printed as 'new mappings added'
UpdateDict(f, d, yes_to_all, pts, no_check, key) ==
    LET nc == no_check \/ yes_to_all
        found == NewPatients(f, d, pts.p)
        sel == Select(found.patients, nc, key)
    IN  IF found.exc # "none"
        THEN [dct |-> d, exc |-> found.exc, accepted |-> <<>>, delta |-> 0]
        ELSE IF sel.exc # "none"
        THEN [dct |-> d, exc |-> sel.exc, accepted |-> <<>>, delta |-> 0]
        ELSE IF sel.ret
        THEN [dct |-> d, exc |-> "none", accepted |-> <<>>, delta |-> 0]
        ELSE LET d2 == AssignIds(d, sel.patients)
             IN  [dct |-> d2, exc |-> "none", accepted |-> sel.patients,
                  delta |-> Len(d2) - Len(d)]

\* create_anon_dict, lines 225-229: update_dict(pts[i], no_check=True) for the
\* paths after the first
RECURSIVE UpdateEach(_, _, _)
UpdateEach(f, d, ps) ==
    IF ps = <<>> THEN [dct |-> d, exc |-> "none"]
    ELSE LET u == UpdateDict(f, d, FALSE, StrArg(Head(ps)), TRUE, OtherKey)
         IN  IF u.exc # "none" THEN [dct |-> u.dct, exc |-> u.exc]
             ELSE UpdateEach(f, u.dct, Tail(ps))

\* create_anon_dict(pts): made: self.dct was assigned; ret: the value returned
CreateAnonDict(f, pts) ==
    IF pts.list
    THEN IF ~IsDir(f, pts.p[1])
         THEN [made |-> FALSE, dct |-> <<>>, exc |-> "OSError", ret |-> FALSE]
         ELSE LET u == UpdateEach(f, ZipNew(ListDirs(f, pts.p[1])), Tail(pts.p))
              IN  [made |-> TRUE, dct |-> u.dct, exc |-> u.exc, ret |-> u.exc = "none"]
    ELSE IF ~Exists(f, pts.p[1])
         THEN [made |-> FALSE, dct |-> <<>>, exc |-> "OSError", ret |-> FALSE]
         ELSE IF ~IsDir(f, pts.p[1])
         THEN [made |-> FALSE, dct |-> <<>>, exc |-> "none", ret |-> FALSE]
         ELSE [made |-> TRUE, dct |-> ZipNew(ListDirs(f, pts.p[1])), exc |-> "none",
               ret |-> TRUE]

-----------------------------------------------------------------------------
(* Values and inputs.                                                      *)

\* self.dct is None, an OrderedDict, or whatever else a pickle file held
PyNone == [type |-> "NoneType", items |-> <<>>]
OD(items) == [type |-> "OrderedDict", items |-> items]
PlainDict(items) == [type |-> "dict", items |-> items]

\* the sequences over S of length lo..hi
SeqsOf(S, lo, hi) == UNION {[1..n -> S] : n \in lo..hi}

\* the images 1..n of a patient directory, none anonymized yet: the file
\* <stem id> followed by anon times '_anon'
Images(n) == {[id |-> i, anon |-> 0] : i \in 1..n}

\* the trees with at most maxDirs patient directories named from names, the
\* directories of one root with distinct names, and at most maxImgs images
\* in the directories together
RECURSIVE SumImages(_)
SumImages(l) == IF l = <<>> THEN 0 ELSE Cardinality(Head(l).files) + SumImages(Tail(l))

Trees(names, maxDirs, maxImgs) ==
    {f \in [Roots -> UNION {[1..n -> [name : names, files : {Images(c) : c \in 0..maxImgs}]]
                             : n \in 0..maxDirs}] :
        /\ \A r \in Roots : NoDuplicates(ListDirs(f, r))
        /\ Len(f["r1"]) + Len(f["r2"]) <= maxDirs
        /\ SumImages(f["r1"]) + SumImages(f["r2"]) <= maxImgs}

\* the path arguments of the model: each path as a string, and lists
PathArgs ==
    {StrArg(p) : p \in Roots \cup {NoPath, FilePath}}
    \cup {ListArg(ps) : ps \in {<<"r1">>, <<"r1", "r2">>, <<"r2", "r1">>, <<"r1", "r1">>,
                                 <<"r1", NoPath>>}}

\* the answers to a menu of n patients: a number, one or two numbers with
\* blanks, or anything else. Every number above n is refused alike, so n + 1
\* stands for them.
MenuKeys(n) ==
    {DigitKey(k) : k \in 0..(n + 1)}
    \cup {ListKey(ns) : ns \in SeqsOf(0..(n + 1), 1, 2)}
    \cup {OtherKey}

\* the fields of a new object, lines 36-51
NewSelf(paths, verbose, similar, only_dirs, log, yes_to_all) ==
    [paths |-> paths, verbose |-> verbose, similar |-> similar,
     only_dirs |-> only_dirs, log |-> log, dct |-> PyNone, failed |-> <<>>,
     attempted |-> 0, processed |-> 0, previous_entries |-> 0,
     yes_to_all |-> yes_to_all, log_dict |-> {}]

\* a pickle file: absent, unreadable, or holding an object
Absent == [kind |-> "absent", obj |-> PyNone]
Corrupt == [kind |-> "corrupt", obj |-> PyNone]
Pickled(obj) == [kind |-> "object", obj |-> obj]

NoLoop == [p |-> 0, dirs |-> <<>>, d |-> <<>>, ls |-> <<>>]
NoArgs == [diction |-> "none", dval |-> PyNone, run |-> FALSE, check |-> "", created |-> FALSE]
NoPkl == [cwd |-> Absent, logs |-> Absent, given |-> Absent]
NoOut == {}

-----------------------------------------------------------------------------------------------------------------------------------------------------
(* The store on its own: create_anon_dict, then calls of update_dict.      *)

NoHist ==
    [op |-> "none", pts |-> StrArg(NoPath), all |-> FALSE, pre |-> <<>>,
     accepted |-> <<>>, delta |-> 0, exc |-> "none", again |-> FALSE,
     prevDelta |-> 0]

StoreInit ==
    /\ fs \in Trees(DirNames, MaxDirs, 0)
    /\ \E y \in BOOLEAN :
          self = NewSelf(StrArg(NoPath), FALSE, FALSE, TRUE, FALSE, y)
    /\ pkl = NoPkl
    /\ args = NoArgs
    /\ pc = "new"
    /\ loop = NoLoop
    /\ exc = "none"
    /\ out = NoOut
    /\ hist = NoHist

\* self.create_anon_dict(pts), lines 208-249
StoreCreate(pts) ==
    /\ pc = "new"
    /\ LET r == CreateAnonDict(fs, pts)
       IN  /\ self' = IF r.made THEN [self EXCEPT !.dct = OD(r.dct)] ELSE self
           /\ pc' = IF r.made THEN "returned" ELSE "failed"
           /\ exc' = r.exc
           /\ hist' = [NoHist EXCEPT !.op = "create", !.pts = pts, !.exc = r.exc,
                                     !.delta = IF r.made THEN Len(r.dct) ELSE 0]
    /\ UNCHANGED <<fs, pkl, args, loop, out>>

\* the menu of update_dict is shown (line 269)
MenuShown(pts, no_check) ==
    /\ ~no_check
    /\ ~self.yes_to_all
    /\ NewPatients(fs, self.dct.items, pts.p).exc = "none"
    /\ NewPatients(fs, self.dct.items, pts.p).patients # <<>>

\* self.update_dict(pts, no_check) with the answer key, lines 251-296
StoreUpdate(pts, no_check, key) ==
    /\ pc = "store"
    /\ LET r == UpdateDict(fs, self.dct.items, self.yes_to_all, pts, no_check, key)
           all == (MenuShown(pts, no_check) => key.kind = "other") /\ r.exc = "none"
       IN  /\ self' = [self EXCEPT !.dct = OD(r.dct)]
           /\ exc' = r.exc
           /\ hist' = [op |-> "update", pts |-> pts, all |-> all,
                       pre |-> self.dct.items, accepted |-> r.accepted,
                       delta |-> r.delta, exc |-> r.exc,
                       again |-> hist.all /\ hist.pts = pts /\ all,
                       prevDelta |-> hist.delta]
    /\ pc' = "returned"
    /\ UNCHANGED <<fs, pkl, args, loop, out>>

\* the call returned (or raised): the object is ready for the next call. Of
\* the call only its paths and the number of entries it added are remembered,
\* when it was an update_dict that accepted every candidate.
StoreReturn ==
    /\ pc = "returned"
    /\ pc' = "store"
    /\ exc' = "none"
    /\ hist' = IF hist.op = "update" /\ hist.all
               THEN [NoHist EXCEPT !.pts = hist.pts, !.all = TRUE, !.delta = hist.delta]
               ELSE NoHist
    /\ UNCHANGED <<fs, pkl, self, args, loop, out>>

StoreNext ==
    \/ \E pts \in PathArgs : StoreCreate(pts)
    \/ \E pts \in PathArgs, no_check \in BOOLEAN :
          \E key \in (IF MenuShown(pts, no_check)
                      THEN MenuKeys(Len(NewPatients(fs, self.dct.items, pts.p).patients))
                      ELSE {OtherKey}) :
             StoreUpdate(pts, no_check, key)
    \/ StoreReturn

StoreSpec == StoreInit /\ [][StoreNext]_vars

-----------------------------------------------------------------------------
(* Properties of the store (checked under StoreSpec).                      *)

Items == self.dct.items

\* the number N of an alias 'SubjectN' (0 for any other string)
AliasIndex(v) ==
    IF \E n \in 1..(4 * MaxDirs) : v = SubjectStr \o Str(n)
    THEN CHOOSE n \in 1..(4 * MaxDirs) : v = SubjectStr \o Str(n)
    ELSE 0

\* the highest alias index of a store (0 for the empty store)
HighestIndex(d) ==
    IF d = <<>> THEN 0
    ELSE CHOOSE n \in {AliasIndex(d[i].v) : i \in 1..Len(d)} :
            \A i \in 1..Len(d) : AliasIndex(d[i].v) <= n

\* s without the later occurrences of its elements
RECURSIVE Dedup(_)
Dedup(s) ==
    IF s = <<>> THEN <<>>
    ELSE LET front == Dedup(SubSeq(s, 1, Len(s) - 1))
         IN  IF s[Len(s)] \in Range(front) THEN front ELSE Append(front, s[Len(s)])

\* the listings of the paths ps, one after the other
RECURSIVE Candidates(_)
Candidates(ps) ==
    IF ps = <<>> THEN <<>> ELSE ListDirs(fs, Head(ps)) \o Candidates(Tail(ps))

\* C1: in every state reached by create_anon_dict and calls of update_dict,
\* no alias 'SubjectN' is held by two different real names.
C1_AliasesUnique ==
    \A i, j \in 1..Len(Items) : i # j => Items[i].v # Items[j].v

\* C2: update_dict never decreases the number of entries; every key present
\* before the call is present after it with the same alias.
C2_UpdateMonotone ==
    hist.op = "update" =>
        /\ Len(Items) >= Len(hist.pre)
        /\ \A k \in Keys(hist.pre) : k \in Keys(Items) /\ Get(Items, k) = Get(hist.pre, k)

\* C2 witness: an update_dict over a store with entries added an entry chosen
\* in the menu.
C2_Witness ==
    /\ hist.op = "update" /\ hist.exc = "none"
    /\ hist.pre # <<>> /\ hist.delta > 0 /\ ~hist.all

C4_UpdateContinuesNumbering ==
    (hist.op = "update" /\ hist.exc = "none") =>
        LET n == HighestIndex(hist.pre)
        IN  /\ \A i \in 1..Len(hist.accepted) :
                  /\ hist.accepted[i] \notin Keys(hist.pre)
                  /\ hist.accepted[i] \in Keys(Items)
                  /\ Get(Items, hist.accepted[i]) = SubjectStr \o Str(n + i)
            /\ \A k \in Keys(hist.pre) : k \in Keys(Items) /\ Get(Items, k) = Get(hist.pre, k)
            /\ hist.delta = Len(Items) - Len(hist.pre)
            /\ hist.delta = Len(hist.accepted)

\* C6: an update_dict that follows an update_dict over the same paths, both
\* accepting every candidate, adds nothing and leaves the store as it was.
C6_SecondUpdateAddsNothing ==
    hist.again => hist.delta = 0 /\ Items = hist.pre

\* C6 witness: the second of two such calls returned, the first having added
\* entries.
C6_Witness ==
    hist.op = "update" /\ hist.again /\ hist.prevDelta > 0 /\ hist.pre # <<>>

-----------------------------------------------------------------------------
(* The run of the constructor, Anonymizer(paths, diction, ..., run).       *)

\* the PatientsName fields the images of the model carry: "ANN", "Ana"
EmbeddedNames == {<<65, 78, 78>>, <<65, 110, 97>>}

\* the names of the patient directories of a run
RunDirNames == {Ann, Bob}

\* a store of an earlier run
StoredItems == ZipNew(<<Ann>>)

\* the answers to a (Y/N) prompt: one of the accepted words, one of the
\* words for 'yes to all', anything else
Answers == {"y", "yy", "n"}

\* x[-5:] == '_anon' for the file <stem id> + anon * '_anon'
EndsWithAnon(file) == file.anon > 0

\* the path of a file of patient directory d of root r
FileOf(r, d, file) == [root |-> r, dir |-> d, id |-> file.id, anon |-> file.anon]

\* the index of directory d in the listing of root r (0 when there is none)
DirIndex(f, r, d) ==
    IF \E i \in 1..Len(f[r]) : f[r][i].name = d
    THEN CHOOSE i \in 1..Len(f[r]) : f[r][i].name = d
    ELSE 0

\* find_dcm(patient_name) under root r: the DICOM images of the directory, as
\* a list (os.walk order: by stem, then by suffix)
RECURSIVE SortFiles(_)
SortFiles(S) ==
    IF S = {} THEN <<>>
    ELSE LET m == CHOOSE x \in S : \A y \in S :
                     x.id < y.id \/ (x.id = y.id /\ x.anon <= y.anon)
         IN  <<m>> \o SortFiles(S \ {m})

FindDcm(f, r, d) ==
    LET i == DirIndex(f, r, d)
    IN  IF i = 0 THEN <<>>
        ELSE LET l == SortFiles(f[r][i].files)
             IN  [k \in 1..Len(l) |-> FileOf(r, d, l[k])]

\* the tree with the file path written (created or overwritten)
WriteFile(f, path) ==
    LET i == DirIndex(f, path.root, path.dir)
    IN  [f EXCEPT ![path.root][i].files = @ \cup {[id |-> path.id, anon |-> path.anon]}]

\* os.rename(d, new) in root r. A target that exists and holds files makes it
\* fail; an empty target directory is replaced.
RenameFails(f, r, d, new) ==
    LET j == DirIndex(f, r, new)
    IN  d # new /\ j # 0 /\ f[r][j].files # {}

Rename(f, r, d, new) ==
    LET i == DirIndex(f, r, d)
        j == DirIndex(f, r, new)
        moved == [f[r] EXCEPT ![i].name = new]
    IN  IF d = new \/ j = 0 THEN [f EXCEPT ![r] = moved]
        ELSE [f EXCEPT ![r] = [k \in 1..(Len(moved) - 1) |->
                                    IF k < j THEN moved[k] ELSE moved[k + 1]]]

\* cleanup on the trees of the roots ps: os.remove of every DICOM image whose
\* name does not end in '_anon'
RemoveOld(f, ps) ==
    [r \in Roots |->
        IF r \in Range(ps)
        THEN [i \in 1..Len(f[r]) |->
                [f[r][i] EXCEPT !.files = {x \in @ : EndsWithAnon(x)}]]
        ELSE f[r]]

\* no file
NoFile == [root |-> NoPath, dir |-> <<>>, id |-> 0, anon |-> 0]

\* what is remembered of the last step of a run: the image anonymize_dicom
\* was called for, the PatientsName read from it, the name it was compared
\* with, whether the '_anon' file was written; for cleanup, the scope and
\* the '_anon' files there were under it; for os.rename, the two names and
\* whether the target existed; for a directory that is passed over, its
\* name; for the constructor, the pickle file it loaded
RunHist ==
    [op |-> "none", dcm |-> NoFile, pn |-> <<>>, original |-> <<>>, wrote |-> FALSE,
     scope |-> <<>>, kept |-> {}, src |-> <<>>, dst |-> <<>>, existed |-> FALSE,
     loaded |-> Absent]

\* an exception ends the call
Raise(e) ==
    /\ pc' = "raised"
    /\ exc' = e

\* the (Y/N) answers that accept (lines 74, 82) and those that also set
\* yes_to_all (lines 76, 84, 109)
Accepts(check) == check \in {"y", "yy"}
YesToAll(check) == check = "yy"

\* lines 57-66: the dictionary given as an argument
GivenDiction ==
    IF args.diction = "instance" THEN [dct |-> args.dval, exc |-> "none"]
    ELSE IF pkl.given.kind = "absent" THEN [dct |-> PyNone, exc |-> "OSError"]
    ELSE IF pkl.given.kind = "corrupt" THEN [dct |-> PyNone, exc |-> "TypeError"]
    ELSE [dct |-> pkl.given.obj, exc |-> "none"]

\* lines 71-77 and 79-85: the dictionary found at one well-known location,
\* offered to the user; cur is what the object holds so far
FoundDiction(file, cur, check) ==
    IF file.kind = "absent" \/ cur.exc # "none" THEN cur
    ELSE IF Accepts(check) /\ file.kind = "corrupt"
    THEN [cur EXCEPT !.exc = "UnpicklingError"]
    ELSE [dct |-> IF Accepts(check) THEN file.obj ELSE cur.dct,
          yes |-> cur.yes \/ YesToAll(check),
          exc |-> "none"]

\* `if diction:` (line 57)
DictionGiven ==
    \/ args.diction = "path"
    \/ args.diction = "instance" /\ args.dval.items # <<>>

\* the pickle file the constructor loads: the one at the path given (line
\* 64), or the last one found and accepted (lines 75, 83)
LoadedFile(check1, check2) ==
    IF args.diction = "path" THEN pkl.given
    ELSE IF args.diction = "instance" /\ DictionGiven THEN Absent
    ELSE IF pkl.cwd.kind = "corrupt" /\ Accepts(check1) THEN pkl.cwd
    ELSE IF pkl.logs # Absent /\ Accepts(check2) THEN pkl.logs
    ELSE IF pkl.cwd # Absent /\ Accepts(check1) THEN pkl.cwd
    ELSE Absent

\* line 88: no dictionary was given, loaded or accepted, so that
\* create_anon_dict is called (line 89)
CreateCalled(check1, check2) ==
    LET found == FoundDiction(pkl.logs,
                     FoundDiction(pkl.cwd,
                         [dct |-> PyNone, yes |-> self.yes_to_all, exc |-> "none"],
                         check1),
                     check2)
    IN  ~DictionGiven /\ found.exc = "none" /\ found.dct.items = <<>>

\* lines 56-100: the constructor resolves the store. check1 and check2 answer
\* the offers of the found dictionaries, key the menu of update_dict.
Resolve(check1, check2, key) ==
    /\ pc = "init"
    /\ LET given == GivenDiction
           found == FoundDiction(pkl.logs,
                        FoundDiction(pkl.cwd,
                            [dct |-> PyNone, yes |-> self.yes_to_all, exc |-> "none"],
                            check1),
                        check2)
           got == IF DictionGiven
                  THEN [dct |-> given.dct, yes |-> self.yes_to_all, exc |-> given.exc]
                  ELSE found
           create == CreateCalled(check1, check2)
           c == CreateAnonDict(fs, self.paths)
           u == UpdateDict(fs, got.dct.items, got.yes, self.paths, FALSE, key)
       IN  IF got.exc # "none"
           THEN Raise(got.exc) /\ UNCHANGED <<self, args>>
           ELSE IF create
           THEN /\ self' = [self EXCEPT !.yes_to_all = got.yes,
                                        !.dct = IF c.made THEN OD(c.dct) ELSE got.dct]
                /\ args' = [args EXCEPT !.created = c.ret]
                /\ IF c.exc # "none" THEN Raise(c.exc)
                   ELSE IF ~c.ret THEN pc' = "exit" /\ exc' = "SystemExit"
                   ELSE pc' = "confirm" /\ exc' = exc
           ELSE IF got.dct.type # "OrderedDict"
           THEN /\ self' = [self EXCEPT !.yes_to_all = got.yes, !.dct = got.dct]
                /\ Raise("TypeError")
                /\ UNCHANGED args
           ELSE /\ self' = [self EXCEPT !.yes_to_all = got.yes, !.dct = OD(u.dct),
                                        !.previous_entries = Len(got.dct.items)]
                /\ IF u.exc # "none" THEN Raise(u.exc)
                   ELSE pc' = "confirm" /\ exc' = exc
                /\ UNCHANGED args
    /\ hist' = [RunHist EXCEPT !.op = IF CreateCalled(check1, check2)
                                      THEN "create" ELSE "resolve",
                               !.loaded = LoadedFile(check1, check2)]
    /\ UNCHANGED <<fs, pkl, loop, out>>

\* (mutant) a confirmation that, declined, goes on to the logs
ConfirmDeclinedLogs(check) ==
    /\ pc = "confirm"
    /\ IF ~args.run
       THEN /\ pc' = "done"
            /\ UNCHANGED <<self, args>>
       ELSE IF self.yes_to_all
       THEN /\ pc' = "anonymize"
            /\ UNCHANGED <<self, args>>
       ELSE /\ args' = [args EXCEPT !.check = check,
                                    !.run = check = "y" \/ YesToAll(check)]
            /\ self' = [self EXCEPT !.yes_to_all = YesToAll(check)]
            /\ pc' = IF args'.run THEN "anonymize" ELSE "log"
    /\ hist' = [RunHist EXCEPT !.op = "confirm"]
    /\ UNCHANGED <<fs, pkl, loop, exc, out>>

\* (mutant) a confirmation whose answer is recorded and not obeyed
ConfirmNotObeyed(check) ==
    /\ pc = "confirm"
    /\ IF ~args.run
       THEN /\ pc' = "done"
            /\ UNCHANGED <<self, args>>
       ELSE IF self.yes_to_all
       THEN /\ pc' = "anonymize"
            /\ UNCHANGED <<self, args>>
       ELSE /\ args' = [args EXCEPT !.check = check,
                                    !.run = check = "y" \/ YesToAll(check)]
            /\ self' = [self EXCEPT !.yes_to_all = YesToAll(check)]
            /\ pc' = "anonymize"
    /\ hist' = [RunHist EXCEPT !.op = "confirm"]
    /\ UNCHANGED <<fs, pkl, loop, exc, out>>

\* lines 102-110: the confirmation of the run. The flag yes_to_all skips the
\* prompt; check is the answer to it.
Confirm(check) ==
    /\ pc = "confirm"
    /\ IF ~args.run
       THEN /\ pc' = "done"
            /\ UNCHANGED <<self, args>>
       ELSE IF self.yes_to_all
       THEN /\ pc' = "anonymize"
            /\ UNCHANGED <<self, args>>
       ELSE /\ args' = [args EXCEPT !.check = check,
                                    !.run = check = "y" \/ YesToAll(check)]
            /\ self' = [self EXCEPT !.yes_to_all = YesToAll(check)]
            /\ pc' = IF args'.run THEN "anonymize" ELSE "done"
    /\ hist' = [RunHist EXCEPT !.op = "confirm"]
    /\ UNCHANGED <<fs, pkl, loop, exc, out>>

\* the root anonymize() is working in
CurrentRoot == self.paths.p[loop.p]

\* anonymize, lines 307-313 and 320-330: the next path of the list (or the
\* one path), its listing; after the last path, 'Patients successfully
\* anonymized' and on to cleanup or to the logs
NextPath ==
    /\ pc = "anonymize"
    /\ IF loop.p = Len(self.paths.p)
       THEN /\ pc' = IF self.only_dirs THEN "log" ELSE "cleanup"
            /\ UNCHANGED <<loop, exc>>
       ELSE LET p == self.paths.p[loop.p + 1]
            IN  IF ~Exists(fs, p)
                THEN Raise("OSError") /\ UNCHANGED loop
                ELSE IF ~IsDir(fs, p) /\ self.paths.list
                THEN Raise("OSError") /\ UNCHANGED loop
                ELSE IF ~IsDir(fs, p)
                THEN /\ loop' = [loop EXCEPT !.p = @ + 1]
                     /\ pc' = "anonymize"
                     /\ UNCHANGED exc
                ELSE /\ loop' = [NoLoop EXCEPT !.p = loop.p + 1, !.dirs = ListDirs(fs, p)]
                     /\ pc' = "dirs"
                     /\ UNCHANGED exc
    /\ hist' = [RunHist EXCEPT !.op = "path"]
    /\ UNCHANGED <<fs, pkl, self, args, out>>

\* anonymize, lines 314-317 (331-334), and anonymize_patient, lines 199-204:
\* the next directory of the listing; one that is a key of the store is the
\* patient to anonymize, with its images when images are anonymized
NextDir ==
    /\ pc = "dirs"
    /\ IF loop.dirs = <<>>
       THEN /\ pc' = "anonymize"
            /\ UNCHANGED <<loop, exc>>
            /\ hist' = [RunHist EXCEPT !.op = "dir"]
       ELSE LET d == Head(loop.dirs)
            IN  IF d \notin Keys(self.dct.items)
                THEN /\ loop' = [loop EXCEPT !.dirs = Tail(@)]
                     /\ UNCHANGED <<pc, exc>>
                     /\ hist' = [RunHist EXCEPT !.op = "skip", !.src = d]
                ELSE IF ~self.only_dirs /\ DirIndex(fs, CurrentRoot, d) = 0
                THEN /\ Raise("OSError") /\ UNCHANGED loop
                     /\ hist' = [RunHist EXCEPT !.op = "dir"]
                ELSE /\ loop' = [loop EXCEPT !.dirs = Tail(@), !.d = d,
                                             !.ls = IF self.only_dirs THEN <<>>
                                                    ELSE FindDcm(fs, CurrentRoot, d)]
                     /\ pc' = "patient"
                     /\ UNCHANGED exc
                     /\ hist' = [RunHist EXCEPT !.op = "dir"]
    /\ UNCHANGED <<fs, pkl, self, args, out>>

\* anonymize_dicom, lines 167-174: the similarity check raises
SimilarityRaises(pn, original) ==
    RatioAboveThreshold(Lower(pn), Lower(original))

\* anonymize_dicom(dcm, alias, original), lines 158-191, for the next image of
\* the patient. pn is the PatientsName read from the image, saved tells
\* whether ds.save_as succeeds or raises ValueError.
AnonymizeDicom(pn, saved) ==
    /\ pc = "patient"
    /\ loop.ls # <<>>
    /\ LET dcm == Head(loop.ls)
           alias == Get(self.dct.items, loop.d)
           original == loop.d
           target == [dcm EXCEPT !.anon = @ + 1]
           seen == \E e \in self.log_dict : e.k = pn
           counted == [self EXCEPT !.attempted = @ + 1]
       IN  IF self.similar /\ original = <<>>
           THEN /\ Raise("NotImplementedError")
                /\ self' = counted
                /\ fs' = fs
                /\ hist' = [RunHist EXCEPT !.op = "anonymize_dicom", !.dcm = dcm, !.pn = pn,
                                           !.original = original]
           ELSE IF self.similar /\ SimilarityRaises(pn, original)
           THEN /\ Raise("TypeError")
                /\ self' = counted
                /\ fs' = fs
                /\ hist' = [RunHist EXCEPT !.op = "anonymize_dicom", !.dcm = dcm, !.pn = pn,
                                           !.original = original]
           ELSE IF ~saved
           THEN /\ self' = [counted EXCEPT !.failed = Append(@, dcm)]
                /\ fs' = fs
                /\ UNCHANGED <<pc, exc>>
                /\ hist' = [RunHist EXCEPT !.op = "anonymize_dicom", !.dcm = dcm, !.pn = pn,
                                           !.original = original]
           ELSE /\ fs' = WriteFile(fs, target)
                /\ hist' = [RunHist EXCEPT !.op = "anonymize_dicom", !.dcm = dcm, !.pn = pn,
                                           !.original = original, !.wrote = TRUE]
                /\ IF self.verbose /\ self.log /\ seen
                      /\ \E e \in self.log_dict : e.k = pn /\ e.v = alias
                   THEN Raise("KeyError") /\ self' = counted
                   ELSE /\ self' = [counted EXCEPT
                               !.log_dict = IF self.verbose /\ self.log /\ ~seen
                                            THEN @ \cup {[k |-> pn, v |-> alias]} ELSE @,
                               !.processed = IF self.verbose THEN @ + 1 ELSE @]
                        /\ UNCHANGED <<pc, exc>>
    /\ loop' = [loop EXCEPT !.ls = Tail(@)]
    /\ UNCHANGED <<pkl, args, out>>

\* anonymize, line 319 (335): os.rename(d, self.dct[d]) once the images of
\* the patient are done
RenameDir ==
    /\ pc = "patient"
    /\ loop.ls = <<>>
    /\ LET new == Get(self.dct.items, loop.d)
       IN  IF DirIndex(fs, CurrentRoot, loop.d) = 0
              \/ RenameFails(fs, CurrentRoot, loop.d, new)
           THEN Raise("OSError") /\ fs' = fs
           ELSE /\ fs' = Rename(fs, CurrentRoot, loop.d, new)
                /\ pc' = "dirs"
                /\ UNCHANGED exc
    /\ hist' = [RunHist EXCEPT !.op = "rename", !.src = loop.d,
                               !.dst = Get(self.dct.items, loop.d),
                               !.existed = DirIndex(fs, CurrentRoot,
                                               Get(self.dct.items, loop.d)) # 0]
    /\ UNCHANGED <<pkl, self, args, loop, out>>

\* the '_anon' files under the roots ps
AnonFiles(f, ps) ==
    UNION {{FileOf(ri[1], f[ri[1]][ri[2]].name, x) :
              x \in {y \in f[ri[1]][ri[2]].files : EndsWithAnon(y)}} :
           ri \in {t \in Range(ps) \X (1..(Len(f["r1"]) + Len(f["r2"]))) :
                     t[2] <= Len(f[t[1]])}}

\* cleanup(pts), lines 347-382, called by anonymize (line 342) with its paths.
\* For a list, os.path.exists(pts) is asked of the list itself (line 361) and
\* raises TypeError for the first path.
Cleanup(pts) ==
    /\ pc = "cleanup"
    /\ IF pts.list /\ pts.p # <<>>
       THEN Raise("TypeError") /\ fs' = fs
       ELSE /\ fs' = RemoveOld(fs, pts.p)
            /\ pc' = "log"
            /\ UNCHANGED exc
    /\ hist' = [RunHist EXCEPT !.op = "cleanup", !.scope = pts.p,
                               !.kept = AnonFiles(fs, pts.p)]
    /\ UNCHANGED <<pkl, self, args, loop, out>>

\* (mutant) the store is pickled before the renames, as soon as it is confirmed
WriteLogsEarly ==
    /\ pc \in {"log", "anonymize"}
    /\ out' = out \cup {"patient aliases.txt"}
                  \cup (IF self.failed # <<>> THEN {"failed dicom.txt"} ELSE {})
                  \cup (IF self.log THEN {"patient log.txt"} ELSE {})
    /\ pkl' = [pkl EXCEPT !.logs = Pickled(self.dct)]
    /\ pc' = "done"
    /\ hist' = [RunHist EXCEPT !.op = "log"]
    /\ UNCHANGED <<fs, self, args, loop, exc>>

\* lines 117-154: the logs and the pickled store, written to log_dir (the
\* absolute path of './logs' taken at line 49, before any chdir)
WriteLogs ==
    /\ pc = "log"
    /\ out' = out \cup {"patient aliases.txt"}
                  \cup (IF self.failed # <<>> THEN {"failed dicom.txt"} ELSE {})
                  \cup (IF self.log THEN {"patient log.txt"} ELSE {})
    /\ pkl' = [pkl EXCEPT !.logs = Pickled(self.dct)]
    /\ pc' = "done"
    /\ hist' = [RunHist EXCEPT !.op = "log"]
    /\ UNCHANGED <<fs, self, args, loop, exc>>

\* the arguments of the constructor, and the files it finds. Runs that keep
\* to the directories (only_dirs) start from trees without images and from
\* every kind of dictionary; runs over images start from a new store or from
\* a store handed over as an object. Flags the run never reads keep their
\* defaults, and only the roots among the paths hold directories.
Init ==
    /\ pkl \in [cwd : {Absent, Corrupt, Pickled(OD(StoredItems)), Pickled(PlainDict(StoredItems)),
                       Pickled(PlainDict(<<>>))},
                logs : {Absent, Pickled(OD(StoredItems))},
                given : {Absent, Corrupt, Pickled(OD(StoredItems)), Pickled(OD(<<>>)),
                         Pickled(PlainDict(StoredItems))}]
    /\ args \in [diction : {"none", "instance", "path"},
                 dval : {PyNone, OD(<<>>), OD(StoredItems)},
                 run : BOOLEAN, check : {""}, created : {FALSE}]
    /\ Cardinality({x \in {"cwd", "logs", "given"} : pkl[x] # Absent}) <= 1
    /\ (args.diction = "instance") = (args.dval # PyNone)
    /\ pkl.given # Absent => args.diction = "path"
    /\ args.diction # "none" => pkl.cwd = Absent /\ pkl.logs = Absent
    /\ \E paths \in {StrArg("r1"), ListArg(<<"r1">>), ListArg(<<"r1", "r2">>),
                     StrArg(FilePath)},
          verbose \in BOOLEAN, similar \in BOOLEAN, only_dirs \in BOOLEAN,
          log \in BOOLEAN, yes_to_all \in BOOLEAN :
          /\ self = NewSelf(paths, verbose, similar, only_dirs, log, yes_to_all)
          /\ only_dirs => ~verbose /\ similar
          /\ ~verbose => log
    /\ IF self.only_dirs
       THEN fs \in Trees(RunDirNames \cup {Alias(1)}, MaxRunDirs, MaxOtherFiles)
       ELSE /\ fs \in Trees(RunDirNames, MaxRunDirs, MaxImgs)
            /\ pkl = NoPkl
            /\ self.paths # StrArg(FilePath)
    /\ \A r \in Roots : r \notin Range(self.paths.p) => fs[r] = <<>>
    /\ pc = "init"
    /\ loop = NoLoop
    /\ exc = "none"
    /\ out = NoOut
    /\ hist = RunHist

Next ==
    \/ \E check1 \in (IF pkl.cwd = Absent THEN {"n"} ELSE Answers),
          check2 \in (IF pkl.logs = Absent THEN {"n"} ELSE Answers) :
          \E key \in MenuKeys(MaxRunDirs) : Resolve(check1, check2, key)
    \/ \E check \in Answers : Confirm(check)
    \/ NextPath
    \/ NextDir
    \/ \E pn \in EmbeddedNames, saved \in BOOLEAN : AnonymizeDicom(pn, saved)
    \/ RenameDir
    \/ Cleanup(self.paths)
    \/ WriteLogs

Spec == Init /\ [][Next]_vars

-----------------------------------------------------------------------------
(* Properties of the run (checked under Spec).                             *)

\* the DICOM images under the roots ps whose name does not end in '_anon'
OldFiles(f, ps) ==
    UNION {{FileOf(ri[1], f[ri[1]][ri[2]].name, x) :
              x \in {y \in f[ri[1]][ri[2]].files : ~EndsWithAnon(y)}} :
           ri \in {t \in Range(ps) \X (1..(Len(f["r1"]) + Len(f["r2"]))) :
                     t[2] <= Len(f[t[1]])}}

\* C5: create_anon_dict over paths without a patient directory fails: it
\* leaves no empty store behind, and the run neither goes on to the
\* confirmation and the renaming nor writes the logs.
C5_CreateFromEmptyFails ==
    /\ (hist.op = "create" /\ Candidates(self.paths.p) = <<>>) =>
          /\ pc \in {"raised", "exit"}
          /\ self.dct # OD(<<>>)
    /\ (args.created /\ Items = <<>>) => out = {} /\ pkl.logs = Absent

\* C7: with similarity_check, anonymize_dicom rejects the image (TypeError
\* for the mismatch, no '_anon' file written) exactly when the ratio of the
\* embedded name and the directory name is not above 0.7.
C7_RejectsIffNotAbove ==
    (hist.op = "anonymize_dicom" /\ self.similar) =>
        LET above == RatioAboveThreshold(Lower(hist.pn), Lower(hist.original))
            rejected == pc = "raised" /\ exc = "TypeError" /\ ~hist.wrote
        IN  rejected <=> ~above

\* C8: an image that anonymize_dicom did not anonymize (similarity mismatch
\* or failed save) is in the failed list, and the run goes on with the
\* remaining images and patients instead of ending in the exception.
C8_FailureDoesNotAbort ==
    (hist.op = "anonymize_dicom" /\ ~hist.wrote) =>
        /\ pc # "raised"
        /\ hist.dcm \in Range(self.failed)

\* C9: cleanup(scope), for one path and for a list of paths, returns with
\* no DICOM image left under the scope whose name does not end in '_anon',
\* and with every '_anon' file that was there before.
C9_CleanupDeletesOld ==
    hist.op = "cleanup" =>
        /\ pc # "raised"
        /\ OldFiles(fs, hist.scope) = {}
        /\ hist.kept \subseteq AnonFiles(fs, hist.scope)

\* C10: cleanup is reached only in a run whose confirmation prompt was
\* accepted or whose yes_to_all flag is set.
C10_CleanupConfirmed ==
    (pc = "cleanup" \/ hist.op = "cleanup") =>
        self.yes_to_all \/ args.check = "y"

\* C10 witness: a run without yes_to_all, its prompt answered 'y', came back
\* from a cleanup that deleted the originals of the '_anon' files.
C10_Witness ==
    /\ hist.op = "cleanup" /\ pc = "log"
    /\ ~self.yes_to_all /\ args.check = "y"
    /\ hist.kept # {}

\* the patient directories under the paths of the run that the rename loop
\* has still to rename: those named by a key of the store
ToRename ==
    {d \in UNION {Range(ListDirs(fs, r)) : r \in Range(self.paths.p) \cap Roots} :
        d \in Keys(Items) /\ Get(Items, d) # d}

\* C11: when the confirmation is declined, the run ends there: no step
\* before or at the confirmation renames a directory or writes a log or the
\* pickled store, and the logs exist only in a run that was confirmed and
\* has finished anonymize.
C11_DeclinedWritesNothing ==
    /\ [](args.check = "n" => pc = "done" /\ out = {})
    /\ [](out # {} => args.run /\ pc = "done" /\ hist.op = "log")
    /\ [][(pc \in {"init", "confirm"}) => UNCHANGED <<fs, out, pkl>>]_vars

\* C11 witness: a run over directories that are keys of the store ended at
\* the declined confirmation.
C11_Witness ==
    /\ args.check = "n" /\ pc = "done" /\ hist.op = "confirm"
    /\ ToRename # {}

\* C12: the pickled store changes only in the step that follows the
\* completed loop over the paths (and, when images are anonymized, the
\* cleanup); every other step, the failing ones included, leaves the pickle
\* files as they were.
C12_StoreSavedLast ==
    [][pkl' # pkl =>
          /\ pc = "log" /\ pc' = "done"
          /\ loop.p = Len(self.paths.p) /\ loop.dirs = <<>> /\ loop.ls = <<>>
          /\ hist.op = IF self.only_dirs THEN "path" ELSE "cleanup"
          /\ pkl'.cwd = pkl.cwd /\ pkl'.given = pkl.given
          /\ pkl'.logs = Pickled(self.dct)]_vars

\* C12 witness: the store of an earlier run was replaced, after the renames,
\* by a store with more entries.
C12_Witness ==
    /\ hist.op = "log" /\ pc = "done"
    /\ pkl.logs = Pickled(self.dct)
    /\ Len(Items) > Len(StoredItems)
    /\ self.previous_entries = Len(StoredItems)
    /\ \E r \in Roots : \E i \in 1..Len(fs[r]) : fs[r][i].name = Alias(2)

\* the aliases of a store
Aliases(d) == {d[i].v : i \in 1..Len(d)}

\* C13: in a run that starts from the store of an earlier run, no directory
\* named by an alias of the store becomes a key of the store, and no
\* directory that carries an alias already is renamed.
C13_ResumedRunKeepsAliases ==
    self.previous_entries > 0 =>
        /\ Keys(Items) \cap Aliases(Items) = {}
        /\ (hist.op = "rename" /\ pc # "raised") => hist.src \notin Aliases(StoredItems)

\* C14: os.rename of a patient directory to an alias that names another
\* entry of the same parent raises OSError, and the directory keeps its name.
C14_RenameCollisionRaises ==
    (hist.op = "rename" /\ hist.existed /\ hist.src # hist.dst) =>
        /\ pc = "raised" /\ exc = "OSError"
        /\ DirIndex(fs, CurrentRoot, hist.src) # 0

\* C15: when the pickle file the constructor loads is unreadable or holds
\* something that is not an OrderedDict, the constructor raises and the
\* store has no entry that the file did not hold.
C15_CorruptStoreAborts ==
    (hist.op \in {"resolve", "create"}
        /\ (hist.loaded.kind = "corrupt"
            \/ (hist.loaded.kind = "object" /\ hist.loaded.obj.type # "OrderedDict"))) =>
        /\ pc = "raised"
        /\ Items = hist.loaded.obj.items

\* C16: a directory of the listing that is not a key of the store is
\* recorded in the failed list when the rename loop passes it.
C16_LookupMissRecorded ==
    hist.op = "skip" =>
        /\ pc # "raised"
        /\ \E i \in 1..Len(self.failed) : self.failed[i].dir = hist.src

\* C30: cleanup after an anonymization of images deletes no image without
\* an '_anon' copy: every image whose name does not end in '_anon' is still
\* there after it, or its '_anon' copy is.
C30_NoImageLost ==
    [][(pc = "cleanup") =>
          \A f \in OldFiles(fs, self.paths.p) :
              \/ f \in OldFiles(fs', self.paths.p)
              \/ [f EXCEPT !.anon = 1] \in AnonFiles(fs', self.paths.p)]_vars

-----------------------------------------------------------------------------
(* anonymize_log(conv_log, patient_log), lines 411-448.                    *)

\* lines of the conversion log
MaxLines == 3

\* the column at which a line of the patient log is cut into name and alias
\* (lines 149 and 431)
NameWidth == 40

Space == 32
Newline == 10
Whitespace == {9, 10, 11, 12, 13, 32}

\* s[:n] and s[n:]
Take(s, n) == SubSeq(s, 1, Min(n, Len(s)))
Drop(s, n) == SubSeq(s, n + 1, Len(s))

\* s[:-1]
ButLast(s) == SubSeq(s, 1, Len(s) - 1)

\* s.strip()
RECURSIVE LStrip(_)
LStrip(s) == IF s # <<>> /\ Head(s) \in Whitespace THEN LStrip(Tail(s)) ELSE s

RECURSIVE RStrip(_)
RStrip(s) == IF s # <<>> /\ s[Len(s)] \in Whitespace THEN RStrip(ButLast(s)) ELSE s

Strip(s) == RStrip(LStrip(s))

\* name in line
Contains(line, name) ==
    \E i \in 1..(Len(line) + 1) :
        i + Len(name) - 1 <= Len(line) /\ SubSeq(line, i, i + Len(name) - 1) = name

\* line.replace(old, new): every occurrence, from the left; for the empty
\* old, new before every character and at the end
RECURSIVE PyReplace(_, _, _)
PyReplace(line, old, new) ==
    IF old = <<>>
    THEN IF line = <<>> THEN new
         ELSE new \o <<Head(line)>> \o PyReplace(Tail(line), old, new)
    ELSE IF Len(line) < Len(old) THEN line
    ELSE IF Take(line, Len(old)) = old
    THEN new \o PyReplace(Drop(line, Len(old)), old, new)
    ELSE <<Head(line)>> \o PyReplace(Tail(line), old, new)

\* '{:<40}{}\n'.format(key, val), lines 138 and 149-151
FormatEntry(key, val) ==
    key \o [i \in 1..(IF Len(key) < NameWidth THEN NameWidth - Len(key) ELSE 0) |-> Space]
        \o val \o <<Newline>>

\* "Patient Name", "Patient Alias", "PATIENT INFO", "ok"
PatientNameStr == <<80, 97, 116, 105, 101, 110, 116, 32, 78, 97, 109, 101>>
PatientAliasStr == <<80, 97, 116, 105, 101, 110, 116, 32, 65, 108, 105, 97, 115>>
Sentinel == <<80, 65, 84, 73, 69, 78, 84, 32, 73, 78, 70, 79>>
OkStr == <<111, 107>>

\* 'patient log.txt' as the constructor writes it for the log_dict entries
PatientLogFile(entries) ==
    <<FormatEntry(PatientNameStr, PatientAliasStr)>>
        \o [i \in 1..Len(entries) |-> FormatEntry(entries[i].k, entries[i].v)]

\* lines 429-431: pat_dct[line[:40].strip()] = line[40:].strip(), line by line
RECURSIVE ReadPatientLog(_, _)
ReadPatientLog(lines, d) ==
    IF lines = <<>> THEN d
    ELSE ReadPatientLog(Tail(lines),
             SetItem(d, Strip(Take(Head(lines), NameWidth)),
                        Strip(Drop(Head(lines), NameWidth))))

\* lines 441-445: the names of pat_dct tried on one line, one after the other
RECURSIVE ReplaceNames(_, _, _)
ReplaceNames(line, d, expect) ==
    IF d = <<>> THEN [line |-> line, expect |-> expect]
    ELSE IF Contains(line, Head(d).k)
    THEN ReplaceNames(PyReplace(line, ButLast(Head(d).k), Head(d).v), Tail(d), FALSE)
    ELSE ReplaceNames(line, Tail(d), expect)

\* the lines a conversion log is made of: the sentinel, a line with a name,
\* a line with the name twice, a line without a name
LogLines ==
    {Sentinel \o <<Newline>>, Ann \o <<Newline>>,
     Ann \o <<Space>> \o Ann \o <<Newline>>, OkStr \o <<Newline>>}

\* the entries of log_dict the patient log is written from
LogEntries == {<<>>, ZipNew(<<Ann>>), ZipNew(<<Bob, Ann>>)}


LogInit ==
    /\ args \in [conv : SeqsOf(LogLines, 0, MaxLines),
                 plog : {PatientLogFile(e) : e \in LogEntries},
                 conv_exists : BOOLEAN, plog_exists : BOOLEAN]
    /\ ~args.conv_exists => args.conv = <<>>
    /\ ~args.plog_exists => args.plog = PatientLogFile(<<>>)
    /\ loop = [i |-> 0, expect_patient |-> FALSE, pat_dct |-> <<>>]
    /\ out = <<>>
    /\ pc = "call"
    /\ exc = "none"
    /\ fs = [r \in Roots |-> <<>>]
    /\ pkl = NoPkl
    /\ self = PyNone
    /\ hist = RunHist

\* lines 423-431: the two paths are checked and the patient log is read
LoadPatientLog ==
    /\ pc = "call"
    /\ IF ~args.conv_exists \/ ~args.plog_exists
       THEN Raise("OSError") /\ UNCHANGED loop
       ELSE /\ loop' = [loop EXCEPT !.pat_dct = ReadPatientLog(args.plog, <<>>)]
            /\ pc' = "lines"
            /\ UNCHANGED exc
    /\ UNCHANGED <<fs, pkl, self, args, out, hist>>

\* lines 437-446: one line of the conversion log is read, its names are
\* replaced when a patient is expected, and it is written
AnonymizeLine ==
    /\ pc = "lines"
    /\ loop.i < Len(args.conv)
    /\ LET line == args.conv[loop.i + 1]
           expect == loop.expect_patient \/ Contains(line, Sentinel)
           r == IF expect THEN ReplaceNames(line, loop.pat_dct, expect)
                ELSE [line |-> line, expect |-> expect]
       IN  /\ out' = Append(out, r.line)
           /\ loop' = [loop EXCEPT !.i = @ + 1, !.expect_patient = r.expect]
    /\ UNCHANGED <<fs, pkl, self, args, pc, exc, hist>>

\* lines 447-448: the end of the conversion log, return True
LogReturn ==
    /\ pc = "lines"
    /\ loop.i = Len(args.conv)
    /\ pc' = "returned"
    /\ UNCHANGED <<fs, pkl, self, args, loop, exc, out, hist>>

LogNext ==
    \/ LoadPatientLog
    \/ AnonymizeLine
    \/ LogReturn

LogSpec == LogInit /\ [][LogNext]_vars

\* line with the first occurrence of name replaced by alias
RECURSIVE ReplaceFirst(_, _, _)
ReplaceFirst(line, name, alias) ==
    IF Len(line) < Len(name) \/ name = <<>> THEN line
    ELSE IF Take(line, Len(name)) = name THEN alias \o Drop(line, Len(name))
    ELSE <<Head(line)>> \o ReplaceFirst(Tail(line), name, alias)

\* the position of the first occurrence of name in line
FirstAt(line, name) ==
    CHOOSE i \in 1..(Len(line) + 1) :
        /\ SubSeq(line, i, i + Len(name) - 1) = name
        /\ \A j \in 1..(i - 1) : SubSeq(line, j, j + Len(name) - 1) # name

\* the lines to be written for lines: in a block opened by the sentinel, the
\* first occurrence of a name of d is replaced by its alias, once
RECURSIVE Substituted(_, _, _)
Substituted(lines, d, expect) ==
    IF lines = <<>> THEN <<>>
    ELSE LET line == Head(lines)
             e == expect \/ Contains(line, Sentinel)
             known == {i \in 1..Len(d) : d[i].k # <<>> /\ Contains(line, d[i].k)}
         IN  IF e /\ known # {}
             THEN LET i == CHOOSE i \in known : \A j \in known :
                               FirstAt(line, d[i].k) <= FirstAt(line, d[j].k)
                  IN  <<ReplaceFirst(line, d[i].k, d[i].v)>>
                          \o Substituted(Tail(lines), d, FALSE)
             ELSE <<line>> \o Substituted(Tail(lines), d, e)

\* C17: the lines written so far are the lines of the conversion log in
\* order, each unchanged except for one substitution per 'PATIENT INFO'
\* block: the first occurrence of a known name, the whole name, replaced by
\* its alias.
C17_OneSubstitutionPerBlock ==
    pc \in {"lines", "returned"} =>
        out = SubSeq(Substituted(args.conv, loop.pat_dct, FALSE), 1, loop.i)

-----------------------------------------------------------------------------
(* check_depth and average_depth (components.py), as pre_check calls them  *)
(* at line 443 of preprocess.py.                                           *)

\* directories in the list given to the depth check
MaxNormal == 5

\* the depths rd.count('/') of the directories of the model
DepthValues == {2, 3, 5}

RECURSIVE Sum(_)
Sum(l) == IF l = <<>> THEN 0 ELSE Head(l) + Sum(Tail(l))

\* round(sum(depths)/len(depths)) (true division; round goes away from zero
\* at one half), for a list that is not empty
RoundedAverage(depths) == (2 * Sum(depths) + Len(depths)) \div (2 * Len(depths))

\* check_depth(dirs_to_check, normal_depth): the positions of the
\* directories whose depth is not normal_depth, in order
RECURSIVE Misses(_, _, _)
Misses(depths, normal_depth, i) ==
    IF i > Len(depths) THEN <<>>
    ELSE (IF depths[i] # normal_depth THEN <<i>> ELSE <<>>)
             \o Misses(depths, normal_depth, i + 1)

CheckDepth(depths, normal_depth) == Misses(depths, normal_depth, 1)

DepthInit ==
    /\ args = [depths |-> <<>>]
    /\ loop = [normal_depth |-> 0, moved |-> <<>>]
    /\ out = <<>>
    /\ pc = "new"
    /\ exc = "none"
    /\ fs = [r \in Roots |-> <<>>]
    /\ pkl = NoPkl
    /\ self = PyNone
    /\ hist = RunHist

\* the list of directories of a call, by their depths
DepthCall(depths) ==
    /\ pc = "new"
    /\ args' = [depths |-> depths]
    /\ pc' = "call"
    /\ UNCHANGED <<fs, pkl, self, loop, exc, out, hist>>

\* average_depth(normal), rounded: the argument normal_depth of line 443.
\* The sum is divided by len(depths): ZeroDivisionError for the empty list.
AverageDepth ==
    /\ pc = "call"
    /\ IF args.depths = <<>>
       THEN Raise("ZeroDivisionError") /\ UNCHANGED loop
       ELSE /\ loop' = [loop EXCEPT !.normal_depth = RoundedAverage(args.depths)]
            /\ pc' = "averaged"
            /\ UNCHANGED exc
    /\ UNCHANGED <<fs, pkl, self, args, out, hist>>

\* check_depth(normal, normal_depth): the list of misses
CheckDepthCall ==
    /\ pc = "averaged"
    /\ out' = CheckDepth(args.depths, loop.normal_depth)
    /\ pc' = "returned"
    /\ UNCHANGED <<fs, pkl, self, args, loop, exc, hist>>

\* lines 456-460 of preprocess.py (pre_check with action): the DICOMDIR of
\* every miss is moved to os.path.dirname(d), one directory up, and normal
\* holds that directory in its place
MoveWrongDepth ==
    /\ pc = "returned"
    /\ loop' = [loop EXCEPT !.moved = [k \in 1..Len(args.depths) |->
                    IF k \in Range(out) THEN args.depths[k] - 1 ELSE args.depths[k]]]
    /\ pc' = "moved"
    /\ UNCHANGED <<fs, pkl, self, args, exc, out, hist>>

DepthNext ==
    \/ \E depths \in SeqsOf(DepthValues, 0, MaxNormal) : DepthCall(depths)
    \/ AverageDepth
    \/ CheckDepthCall
    \/ MoveWrongDepth

DepthSpec == DepthInit /\ [][DepthNext]_vars

\* C20: for directories at the depths [2, 2, 2, 5] the depth check compares
\* with the depth 2 and returns the fourth directory alone.
C20_OutlierFlagged ==
    (pc = "returned" /\ args.depths = <<2, 2, 2, 5>>) =>
        /\ loop.normal_depth = 2
        /\ out = <<4>>

\* C22: when pre_check with action has handled the directories of a wrong
\* depth, the DICOMDIR of each of them is at the depth the check compared
\* with, however many levels it was away from it.
C22_MovedToNormalDepth ==
    pc = "moved" => \A k \in Range(out) : loop.moved[k] = loop.normal_depth

-----------------------------------------------------------------------------
(* Preprocessor.pre_check(parent_dirs, action), preprocess.py lines 272-514. *)

\* patient directories under the parent directories
MaxPatients == 2

\* the depth of a patient directory, relative to the working directory
PatientDepth == 2

\* a DICOMDIR file: whether the name of its directory holds 'dat' (line 329),
\* the depth of that directory, whether there is a DICOM image under it
Marker(dat, depth, has_dicom) == [dat |-> dat, depth |-> depth, has_dicom |-> has_dicom]

\* the DICOMDIR files of a patient, in the order of os.walk: none, one in the
\* patient directory or in a subdirectory, with or without images, a DaT
\* scan beside or instead of it, two that are no DaT scans
MarkerLists ==
    {<<>>,
     <<Marker(FALSE, 2, TRUE)>>, <<Marker(FALSE, 2, FALSE)>>,
     <<Marker(FALSE, 3, TRUE)>>, <<Marker(FALSE, 3, FALSE)>>,
     <<Marker(TRUE, 3, TRUE)>>, <<Marker(TRUE, 3, FALSE)>>,
     <<Marker(FALSE, 2, TRUE), Marker(TRUE, 3, TRUE)>>,
     <<Marker(FALSE, 2, FALSE), Marker(TRUE, 3, TRUE)>>,
     <<Marker(FALSE, 3, TRUE), Marker(TRUE, 3, TRUE)>>,
     <<Marker(TRUE, 3, TRUE), Marker(FALSE, 3, TRUE)>>,
     <<Marker(FALSE, 2, TRUE), Marker(FALSE, 3, TRUE)>>,
     <<Marker(FALSE, 3, TRUE), Marker(FALSE, 3, TRUE)>>}

\* the DICOMDIR files that are no DaT scans
NonDat(markers) == SelectSeq(markers, LAMBDA m : ~m.dat)

\* a patient directory: whether its name matches '^D[0-9]\. ' (line 470), its
\* DICOMDIR files, whether it holds DICOM images outside their directories.
\* A name or an image that pre_check never looks at is left out.
PatientDirs ==
    {p \in [name_ok : BOOLEAN, loose : BOOLEAN, markers : MarkerLists] :
        /\ p.loose => NonDat(p.markers) = <<>>
        /\ ~p.name_ok => Len(NonDat(p.markers)) = 1}

\* find_dcm(pat) finds a DICOM image whose name does not hold 'dat' (line
\* 394 looks at the name of the image, not at its directory: the images of
\* a DaT scan count)
HasImages(p) == p.loose \/ \E k \in 1..Len(p.markers) : p.markers[k].has_dicom

\* np.argmin(map(len, dicomdirs)): the first of the shortest paths; the
\* deeper directory has the longer path
RECURSIVE ArgMin(_, _, _)
ArgMin(markers, best, k) ==
    IF k > Len(markers) THEN best
    ELSE ArgMin(markers, IF markers[k].depth < markers[best].depth THEN k ELSE best, k + 1)

\* an entry of normal or of an issue list: the patient it belongs to, the
\* depth of the directory, whether its basename matches the naming scheme
\* (a subdirectory of a patient does not)
Entry(i, depth, p) ==
    [pat |-> i, depth |-> depth, name_ok |-> depth = PatientDepth /\ p.name_ok]

\* lines 294-296
NoIssues ==
    [normal |-> <<>>, none |-> <<>>, many |-> <<>>, dcm_without_dir |-> <<>>,
     dir_without_dcm |-> <<>>, dat |-> <<>>, wrong_depth |-> <<>>,
     wrong_dirname |-> <<>>, ret |-> "none"]

PreInit ==
    /\ fs \in SeqsOf(PatientDirs, 0, MaxPatients)
    /\ args \in [action : BOOLEAN]
    /\ self \in [yes_to_all : BOOLEAN]
    /\ ~args.action => ~self.yes_to_all
    /\ loop = [i |-> 0]
    /\ out = NoIssues
    /\ pc = "scan"
    /\ exc = "none"
    /\ pkl = NoPkl
    /\ hist = [op |-> "none", pat |-> 0, mri |-> 0]

\* lines 328-343 with action: dicom_dat and structure_dat_directory for the
\* DaT scans. Unless the answer key declines, the directory is pruned to its
\* png images, its DICOMDIR included; declined, it stays, with its DICOM
\* images or without them (kept), as the conversion left it.
RECURSIVE PruneDat(_, _, _)
PruneDat(markers, declined, kept) ==
    IF markers = <<>> THEN <<>>
    ELSE LET m == Head(markers)
         IN  (IF ~m.dat THEN <<m>>
              ELSE IF declined THEN <<[m EXCEPT !.has_dicom = @ /\ kept]>>
              ELSE <<>>) \o PruneDat(Tail(markers), declined, kept)

\* lines 313-383: one patient directory of the traversal
ScanPatient(key, kept) ==
    /\ pc = "scan"
    /\ loop.i < Len(fs)
    /\ LET i == loop.i + 1
           p == fs[i]
           found == p.markers
           dats == IF args.action THEN 0 ELSE Len(SelectSeq(found, LAMBDA m : m.dat))
           asked == args.action /\ ~self.yes_to_all /\ NonDat(found) # found
           declined == asked /\ key = "n"
           dicomdirs == IF args.action THEN PruneDat(found, declined, kept) ELSE found
           empty == SelectSeq(dicomdirs, LAMBDA m : ~m.has_dicom)
           count == Len(dicomdirs) - dats
           e(m) == Entry(i, m.depth, p)
           with_dat == [out EXCEPT !.dat = IF args.action THEN @
                                           ELSE @ \o [k \in 1..dats |-> e(Marker(TRUE, 3, TRUE))],
                                   !.dir_without_dcm =
                                       IF args.action \/ found = <<>> THEN @
                                       ELSE @ \o [k \in 1..Len(empty) |-> e(empty[k])]]
       IN  /\ self' = [self EXCEPT !.yes_to_all = @ \/ (asked /\ YesToAll(key))]
           /\ fs' = [fs EXCEPT ![i].markers = dicomdirs]
           /\ hist' = [op |-> "scan", pat |-> i, mri |-> Len(NonDat(found))]
           /\ IF found = <<>>
              THEN /\ out' = [out EXCEPT !.none = Append(@, e(Marker(FALSE, PatientDepth, FALSE)))]
                   /\ UNCHANGED <<pc, exc>>
              ELSE IF args.action /\ empty # <<>>
              THEN Raise("OSError") /\ out' = out
              ELSE /\ out' = IF count = 0
                             THEN [with_dat EXCEPT !.none =
                                      Append(@, e(Marker(FALSE, PatientDepth, FALSE)))]
                             ELSE IF count > 1
                             THEN [with_dat EXCEPT !.many =
                                      Append(@, e(Marker(FALSE, PatientDepth, FALSE)))]
                             ELSE [with_dat EXCEPT !.normal =
                                      Append(@, e(dicomdirs[ArgMin(dicomdirs, 1, 1)]))]
                   /\ UNCHANGED <<pc, exc>>
    /\ loop' = [i |-> loop.i + 1]
    /\ UNCHANGED <<pkl, args>>

\* lines 387-405: the patients without a DICOMDIR that hold DICOM images
CheckNone ==
    /\ pc = "scan"
    /\ loop.i = Len(fs)
    /\ LET with == SelectSeq(out.none, LAMBDA x : HasImages(fs[x.pat]))
           without == SelectSeq(out.none, LAMBDA x : ~HasImages(fs[x.pat]))
       IN  out' = IF args.action
                  THEN [out EXCEPT !.normal = @ \o with]
                  ELSE [out EXCEPT !.dcm_without_dir = with, !.none = without]
    /\ pc' = "depth"
    /\ hist' = [hist EXCEPT !.op = "none"]
    /\ UNCHANGED <<fs, pkl, self, args, loop, exc>>

\* s without the entries of t
Without(s, t) == SelectSeq(s, LAMBDA x : x \notin Range(t))

\* lines 443-461: the depth check of the normal patients. With action, the
\* DICOMDIR of a miss is moved one directory up.
CheckDepths ==
    /\ pc = "depth"
    /\ IF out.normal = <<>>
       THEN Raise("ZeroDivisionError") /\ UNCHANGED <<out, fs>>
       ELSE LET depths == [k \in 1..Len(out.normal) |-> out.normal[k].depth]
                misses == CheckDepth(depths, RoundedAverage(depths))
                wrong == [k \in 1..Len(misses) |-> out.normal[misses[k]]]
                up(x) == Entry(x.pat, x.depth - 1, fs[x.pat])
            IN  /\ out' = IF args.action
                          THEN [out EXCEPT !.wrong_depth = wrong,
                                           !.normal = [k \in 1..Len(@) |->
                                               IF @[k] \in Range(wrong) THEN up(@[k]) ELSE @[k]]]
                          ELSE [out EXCEPT !.wrong_depth = wrong,
                                           !.normal = Without(@, wrong)]
                /\ fs' = IF args.action
                         THEN [i \in 1..Len(fs) |->
                                 [fs[i] EXCEPT !.markers = [k \in 1..Len(@) |->
                                     IF Entry(i, @[k].depth, fs[i]) \in Range(wrong)
                                     THEN [@[k] EXCEPT !.depth = @ - 1] ELSE @[k]]]]
                         ELSE fs
                /\ pc' = "names"
                /\ UNCHANGED exc
    /\ UNCHANGED <<pkl, self, args, loop, hist>>

\* lines 464-492: the naming scheme. Without action the normal directories
\* whose name does not match are set apart; with action every normal
\* directory is renamed.
CheckNames ==
    /\ pc = "names"
    /\ LET wrong == SelectSeq(out.normal, LAMBDA x : ~x.name_ok)
       IN  out' = IF args.action THEN out
                  ELSE [out EXCEPT !.wrong_dirname = wrong, !.normal = Without(@, wrong)]
    /\ pc' = "final"
    /\ UNCHANGED <<fs, pkl, self, args, loop, exc, hist>>

\* lines 503-514: with action, `with suppress_stdout:` (line 504) is given
\* the function, not its context manager: AttributeError. Without action
\* the result is False when one of the lists of issues holds an entry.
PreReturn ==
    /\ pc = "final"
    /\ IF args.action
       THEN Raise("AttributeError") /\ out' = out
       ELSE /\ out' = [out EXCEPT !.ret = /\ out.none = <<>> /\ out.many = <<>>
                                         /\ out.dcm_without_dir = <<>>
                                         /\ out.dir_without_dcm = <<>>
                                         /\ out.dat = <<>>]
            /\ pc' = "returned"
            /\ UNCHANGED exc
    /\ UNCHANGED <<fs, pkl, self, args, loop, hist>>

PreNext ==
    \/ \E key \in Answers, kept \in BOOLEAN : ScanPatient(key, kept)
    \/ CheckNone
    \/ CheckDepths
    \/ CheckNames
    \/ PreReturn

PreSpec == PreInit /\ [][PreNext]_vars

\* the patients with an entry in the list l
PatientsIn(l) == {l[k].pat : k \in 1..Len(l)}

\* C18: the patient pre_check has just looked at is listed by its number of
\* DICOMDIR files that are no DaT scans, with and without action: none for
\* 0, many for 2 or more, normal for exactly 1.
C18_ClassifiedByMarkerCount ==
    hist.op = "scan" =>
        /\ pc # "raised"
        /\ (hist.pat \in PatientsIn(out.none)) = (hist.mri = 0)
        /\ (hist.pat \in PatientsIn(out.many)) = (hist.mri >= 2)
        /\ (hist.pat \in PatientsIn(out.normal)) = (hist.mri = 1)

\* the lists a patient can be reported in by pre_check without action
Categories ==
    {"normal", "none", "many", "dir_without_dcm", "dcm_without_dir", "wrong_depth",
     "wrong_dirname"}

\* C19: when pre_check without action has returned, every patient is in
\* exactly one of normal, none, many, dir-without-dcm, dcm-without-dir,
\* wrong depth and wrong name.
C19_ExactlyOneCategory ==
    (pc = "returned" /\ ~args.action) =>
        \A i \in 1..Len(fs) :
            Cardinality({c \in Categories : i \in PatientsIn(out[c])}) = 1

\* C21: without action pre_check returns True exactly when every list of
\* issues is empty, the directories of a wrong depth and those of a wrong
\* name included.
C21_TrueIffNoViolation ==
    (pc = "returned" /\ ~args.action) =>
        (out.ret = \A c \in (Categories \cup {"dat"}) \ {"normal"} : out[c] = <<>>)

\* the DICOMDIR files a scan of the tree finds
MarkersFound == Sum([i \in 1..Len(fs) |-> Len(fs[i].markers)])

\* C27: pre_check never ends in an exception, with no normal patient
\* either; what it returns is a boolean, and with action it is True exactly
\* when there are as many normal patients as DICOMDIR files in the tree.
C27_ReturnsVerdict ==
    /\ pc # "raised"
    /\ pc = "returned" =>
           /\ out.ret \in BOOLEAN
           /\ args.action => (out.ret = (Len(out.normal) = MarkersFound))

-----------------------------------------------------------------------------
(* Preprocessor.structure_directories(parent_dir), preprocess.py lines      *)
(* 103-155.                                                                 *)

\* directories with a DICOMDIR file under parent_dir
MaxStructDirs == 2

\* 'DICOMDIR', 'IM1', 'a.png', 's.png', '0. DaT', 'DaT', '1.MRI', '.png',
\* '0.dat'
DicomdirStr == <<68, 73, 67, 79, 77, 68, 73, 82>>
Im1Str == <<73, 77, 49>>
APngStr == <<97, 46, 112, 110, 103>>
SPngStr == <<115, 46, 112, 110, 103>>
ZeroDatDirStr == <<48, 46, 32, 68, 97, 84>>
DatDirStr == <<68, 97, 84>>
MriStr == <<49, 46, 77, 82, 73>>
PngExt == <<46, 112, 110, 103>>
ZeroDat == <<48, 46, 100, 97, 116>>

\* x[-n:]
LastChars(x, n) == IF Len(x) <= n THEN x ELSE Drop(x, Len(x) - n)

\* ''.join(x.split())
NoWhitespace(x) == SelectSeq(x, LAMBDA c : c \notin Whitespace)

\* x[-4:] != '.png' and '0.dat' not in ''.join(x.lower().split()), line 135
ToDelete(x) == LastChars(x, 4) # PngExt /\ ~Contains(NoWhitespace(Lower(x)), ZeroDat)

\* an entry of a directory: a file, or a directory with the png images
\* beneath it
File(name) == [name |-> name, isdir |-> FALSE, inside |-> {}]
Dir(name, inside) == [name |-> name, isdir |-> TRUE, inside |-> inside]

\* what a directory with a DICOMDIR may hold beside it: a DICOM image, a
\* converted image, the directories of DaT scans with their converted images
OtherEntries ==
    {File(Im1Str), File(APngStr), Dir(ZeroDatDirStr, {SPngStr}), Dir(DatDirStr, {SPngStr})}

StructDirs == {{File(DicomdirStr)} \cup s : s \in SUBSET OtherEntries}

\* the png images in a directory, each with the entry it is under (its own
\* name when it is directly in the directory)
Pngs(entries) ==
    {<<e.name, e.name>> : e \in {f \in entries : ~f.isdir /\ LastChars(f.name, 4) = PngExt}}
        \cup UNION {{<<e.name, img>> : img \in e.inside} : e \in entries}

\* key.isdigit()
IsDigit(key) == key # <<>> /\ \A i \in 1..Len(key) : key[i] \in Digit(0)..Digit(9)

\* int(key) for a string of digits
RECURSIVE PyInt(_)
PyInt(key) == IF key = <<>> THEN 0 ELSE 10 * PyInt(ButLast(key)) + (key[Len(key)] - Digit(0))

\* key.split()
RECURSIVE Split(_, _)
Split(key, word) ==
    IF key = <<>> THEN (IF word = <<>> THEN <<>> ELSE <<word>>)
    ELSE IF Head(key) \in Whitespace
    THEN (IF word = <<>> THEN <<>> ELSE <<word>>) \o Split(Tail(key), <<>>)
    ELSE Split(Tail(key), Append(word, Head(key)))

\* the answers at the menu: '0', '1', '2', '1 2', '0 1', '' and 'a'
MenuAnswers == {<<48>>, <<49>>, <<50>>, <<49, 32, 50>>, <<48, 32, 49>>, <<>>, <<97>>}

\* patient_dirs[i] of Python for a list of n elements: position i + 1, from
\* the end for a negative i, 0 for an IndexError
PyIndex(i, n) == IF i >= 0 /\ i < n THEN i + 1 ELSE IF i < 0 /\ -i <= n THEN n + i + 1 ELSE 0

StructHist == [op |-> "none", dir |-> 0, before |-> {}, key |-> <<>>]

StructInit ==
    /\ fs \in SeqsOf(StructDirs, 0, MaxStructDirs)
    /\ self \in [yes_to_all : BOOLEAN]
    /\ args = [parent_dir |-> "."]
    /\ loop = [patient_dirs |-> <<>>]
    /\ out = <<>>
    /\ pc = "find"
    /\ exc = "none"
    /\ pkl = NoPkl
    /\ hist = StructHist

\* lines 112-130: the directories found, the menu (out: the number printed
\* before each directory) and the directories chosen by the answer key
SelectDirs(key) ==
    /\ pc = "find"
    /\ LET patient_dirs == [i \in 1..Len(fs) |-> i]
           n == Len(patient_dirs)
           words == Split(key, <<>>)
           chosen == [k \in 1..Len(words) |-> PyIndex(PyInt(words[k]) - 1, n)]
       IN  IF patient_dirs = <<>>
           THEN /\ pc' = "returned"
                /\ UNCHANGED <<loop, out, exc, hist>>
           ELSE IF self.yes_to_all
           THEN /\ pc' = "loop"
                /\ loop' = [patient_dirs |-> patient_dirs]
                /\ UNCHANGED <<out, exc, hist>>
           ELSE /\ out' = [i \in 1..n |-> [num |-> i - 1, dir |-> patient_dirs[i]]]
                /\ hist' = [StructHist EXCEPT !.op = "menu", !.key = key]
                /\ IF IsDigit(key)
                   THEN IF PyInt(key) = 0
                        THEN pc' = "exit" /\ UNCHANGED <<loop, exc>>
                        ELSE IF PyIndex(PyInt(key) - 1, n) = 0
                        THEN Raise("IndexError") /\ UNCHANGED loop
                        ELSE /\ loop' = [patient_dirs |-> <<PyIndex(PyInt(key) - 1, n)>>]
                             /\ pc' = "loop"
                             /\ UNCHANGED exc
                   ELSE IF key # <<>> /\ \A k \in 1..Len(words) : IsDigit(words[k])
                   THEN IF 0 \in Range(chosen)
                        THEN Raise("IndexError") /\ UNCHANGED loop
                        ELSE /\ loop' = [patient_dirs |-> chosen]
                             /\ pc' = "loop"
                             /\ UNCHANGED exc
                   ELSE /\ loop' = [patient_dirs |-> patient_dirs]
                        /\ pc' = "loop"
                        /\ UNCHANGED exc
    /\ UNCHANGED <<fs, pkl, self, args>>

\* lines 132-155: one directory of the loop. Everything but the names that
\* end in '.png' or hold '0.dat' is removed (rmtree, or remove for a file),
\* 1.MRI is made and the entries that end in '.png' are moved into it.
StructureDir ==
    /\ pc = "loop"
    /\ loop.patient_dirs # <<>>
    /\ LET d == Head(loop.patient_dirs)
           kept == {e \in fs[d] : ~ToDelete(e.name)}
           imgs == {e \in kept : LastChars(e.name, 4) = PngExt}
           mri == Dir(MriStr, {img[2] : img \in Pngs(imgs)})
       IN  /\ fs' = [fs EXCEPT ![d] = (kept \ imgs) \cup {mri}]
           /\ hist' = [hist EXCEPT !.op = "structure", !.dir = d, !.before = fs[d]]
    /\ loop' = [patient_dirs |-> Tail(loop.patient_dirs)]
    /\ UNCHANGED <<pkl, self, args, pc, exc, out>>

StructReturn ==
    /\ pc = "loop"
    /\ loop.patient_dirs = <<>>
    /\ pc' = "returned"
    /\ UNCHANGED <<fs, pkl, self, args, loop, exc, out, hist>>

StructNext ==
    \/ \E key \in MenuAnswers : SelectDirs(key)
    \/ StructureDir
    \/ StructReturn

StructSpec == StructInit /\ [][StructNext]_vars

\* C23: after structure_directories has handled a directory, the directory
\* holds only 1.MRI and the '0.dat' entries, every png image that was
\* directly in it is in 1.MRI, and every png image that was in it or beneath
\* it is still there or in 1.MRI.
C23_OnlyMriAndDat ==
    hist.op = "structure" =>
        LET before == hist.before
            after == fs[hist.dir]
        IN  /\ \A e \in after :
                   e.name = MriStr \/ Contains(NoWhitespace(Lower(e.name)), ZeroDat)
            /\ \A e \in before :
                   (~e.isdir /\ LastChars(e.name, 4) = PngExt)
                       => <<MriStr, e.name>> \in Pngs(after)
            /\ \A img \in Pngs(before) :
                   img \in Pngs(after) \/ <<MriStr, img[2]>> \in Pngs(after)

\* the numbers of the menu and the directory printed after a number
MenuNumbers == {out[i].num : i \in 1..Len(out)}
MenuDir(num) == (CHOOSE i \in 1..Len(out) : out[i].num = num)

\* C29: when the answer at the menu is a number of the menu, or several of
\* them separated by spaces, the directories that are structured are the
\* ones printed after these numbers, and the program neither exits nor
\* raises.
C29_MenuNumberSelectsShown ==
    LET words == Split(hist.key, <<>>)
    IN  (/\ hist.op = "menu"
         /\ words # <<>>
         /\ \A k \in 1..Len(words) : IsDigit(words[k]) /\ PyInt(words[k]) \in MenuNumbers)
            => /\ pc = "loop"
               /\ loop.patient_dirs = [k \in 1..Len(words) |-> out[MenuDir(PyInt(words[k]))].dir]

-----------------------------------------------------------------------------
(* Converter.convert_patient(root_path), converter.py lines 448-516, for    *)
(* the patients of convert_all, one after the other.                        *)

\* patients of a Converter, DICOM images of a patient
MaxConvPatients == 2
MaxDcm == 2

\* the answers at the prompts of convert_patient, as check.lower() without
\* spaces gives them: those that set yes_to_all at the cleanup (line 502)
\* and at the conversion (line 477), those that go on (lines 479 and 504),
\* and 'n'
CleanupYesToAll == {"yy", "yestoall", "yestocleanup", "yestoclean"}
ConvertYesToAll == {"yy", "yestoall", "yes_to_all"}
Proceed == {"y", "yes", "proceed", ""}
ConvAnswers == {"y", "yes", "", "yy", "n"}

ConvHist == [op |-> "none", pat |-> 0, asked |-> FALSE, check |-> "", dcm |-> {}, removed |-> 0]

\* a patient directory: its DICOM images and the png images written from them
ConvInit ==
    /\ \E n \in 1..MaxConvPatients :
           fs \in [1..n -> {[dcm |-> 1..k, png |-> {}] : k \in 0..MaxDcm}]
    /\ \E cleanup, yes_to_all \in BOOLEAN :
           self = [cleanup |-> cleanup, yes_to_all |-> yes_to_all,
                   successful |-> 0, failed |-> 0, removed |-> 0]
    /\ args = [run |-> TRUE]
    /\ loop = [i |-> 1, dcm_lst |-> <<>>, c |-> 0]
    /\ out = <<>>
    /\ pc = "patient"
    /\ exc = "none"
    /\ pkl = NoPkl
    /\ hist = ConvHist

\* the images of a set, as find_dcm lists them
RECURSIVE Listed(_)
Listed(S) == IF S = {} THEN <<>> ELSE LET x == CHOOSE y \in S : \A z \in S : y <= z
                                      IN  <<x>> \o Listed(S \ {x})

\* the next patient, or the end of convert_all
NextPatient ==
    IF loop.i < Len(fs)
    THEN pc' = "patient" /\ loop' = [i |-> loop.i + 1, dcm_lst |-> <<>>, c |-> 0]
    ELSE pc' = "done" /\ loop' = loop

\* lines 455-481: the images are searched, ValueError without any; the
\* prompt of the conversion unless yes_to_all
ConvertPatient(check) ==
    /\ pc = "patient"
    /\ LET dcm_lst == Listed(fs[loop.i].dcm)
           asked == ~self.yes_to_all
           yes_to_all == self.yes_to_all \/ check \in ConvertYesToAll
       IN  IF dcm_lst = <<>>
           THEN Raise("ValueError") /\ UNCHANGED <<loop, self>>
           ELSE /\ self' = [self EXCEPT !.yes_to_all = yes_to_all]
                /\ IF asked /\ check \notin Proceed /\ ~yes_to_all
                   THEN NextPatient
                   ELSE /\ pc' = "convert"
                        /\ loop' = [loop EXCEPT !.dcm_lst = dcm_lst, !.c = 0]
                /\ UNCHANGED exc
    /\ hist' = [ConvHist EXCEPT !.op = "patient", !.pat = loop.i]
    /\ UNCHANGED <<fs, pkl, args, out>>

\* lines 484-488: one image of the loop; flg is the result of to_png, which
\* writes the png image when it is True
ToPng(flg) ==
    /\ pc = "convert"
    /\ loop.dcm_lst # <<>>
    /\ fs' = [fs EXCEPT ![loop.i].png = IF flg THEN @ \cup {Head(loop.dcm_lst)} ELSE @]
    /\ loop' = [loop EXCEPT !.dcm_lst = Tail(@), !.c = IF flg THEN @ + 1 ELSE @]
    /\ UNCHANGED <<pkl, self, args, pc, exc, out, hist>>

\* lines 489-516: the counters, then the cleanup: the prompt unless
\* yes_to_all, and the deletion of every DICOM image `if self.yes_to_all`
CleanupPatient(check) ==
    /\ pc = "convert"
    /\ loop.dcm_lst = <<>>
    /\ LET n == Cardinality(fs[loop.i].dcm)
           counted == [self EXCEPT !.successful = @ + loop.c, !.failed = @ + (n - loop.c)]
           asked == self.cleanup /\ ~self.yes_to_all
           yes_to_all == self.yes_to_all \/ (asked /\ check \in CleanupYesToAll)
           deletes == self.cleanup /\ yes_to_all
                          /\ ~(asked /\ check \notin Proceed /\ ~yes_to_all)
       IN  /\ self' = [counted EXCEPT !.yes_to_all = yes_to_all,
                                      !.removed = IF deletes THEN @ + n ELSE @]
           /\ fs' = [fs EXCEPT ![loop.i].dcm = IF deletes THEN {} ELSE @]
           /\ hist' = [op |-> IF self.cleanup THEN "cleanup" ELSE "kept", pat |-> loop.i,
                       asked |-> asked, check |-> check, dcm |-> fs[loop.i].dcm,
                       removed |-> self.removed]
    /\ NextPatient
    /\ UNCHANGED <<pkl, args, exc, out>>

ConvNext ==
    \/ \E check \in ConvAnswers : ConvertPatient(check)
    \/ \E flg \in BOOLEAN : ToPng(flg)
    \/ \E check \in ConvAnswers : CleanupPatient(check)

ConvSpec == ConvInit /\ [][ConvNext]_vars

\* C26: at the cleanup of a patient, when the user answers 'y', 'yes' or
\* nothing at the prompt of the deletion, or yes_to_all is set, every DICOM
\* image of the patient is removed and counted in removed; when the user
\* declines, none is removed.
C26_ConfirmedCleanupRemoves ==
    hist.op = "cleanup" =>
        LET confirmed == ~hist.asked \/ hist.check \in Proceed \cup CleanupYesToAll
        IN  /\ confirmed => /\ fs[hist.pat].dcm = {}
                            /\ self.removed = hist.removed + Cardinality(hist.dcm)
            /\ ~confirmed => /\ fs[hist.pat].dcm = hist.dcm
                             /\ self.removed = hist.removed

-----------------------------------------------------------------------------
(* is_dicom(dcm, same_size), components.py lines 8-49.                      *)

\* paths in the list given to is_dicom
MaxPaths == 3

\* 'dicomdir'
DicomdirLower == <<100, 105, 99, 111, 109, 100, 105, 114>>

\* a path: its string, whether it exists, whether it is a directory, whether
\* magic.from_file says 'DICOM' of it (it does of a DICOMDIR file)
Path(name, exists, isdir, magic) ==
    [name |-> name, exists |-> exists, isdir |-> isdir, magic |-> magic]

\* 'a/IM1' (an image), 'a/DICOMDIR' and 'DICOMDIR' (DICOMDIR files),
\* 'a/x.txt' (another file), 'a/gone' (no such file), 'a' (a directory)
DicomPaths ==
    {Path(<<97, 47, 73, 77, 49>>, TRUE, FALSE, TRUE),
     Path(<<97, 47, 68, 73, 67, 79, 77, 68, 73, 82>>, TRUE, FALSE, TRUE),
     Path(DicomdirStr, TRUE, FALSE, TRUE),
     Path(<<97, 47, 120, 46, 116, 120, 116>>, TRUE, FALSE, FALSE),
     Path(<<97, 47, 103, 111, 110, 101>>, FALSE, FALSE, FALSE),
     Path(<<97>>, TRUE, TRUE, FALSE)}

\* the results: True and False, None for a nonexistent element of a list
PyBool(b) == IF b THEN "True" ELSE "False"
NoneValue == "None"

\* lines 27-37: a single path. A result that is neither True nor False is
\* the exception raised. magic.from_file on a directory raises IOError, which is caught,
\* or names the directory, by the version of the library: False in both.
IsDicomPath(d) ==
    IF ~d.exists THEN "OSError"
    ELSE IF d.isdir THEN PyBool(FALSE)
    ELSE PyBool(d.magic /\ ~Contains(Lower(d.name), DicomdirLower))

\* lines 40-46: one element of a list; raises tells whether magic.from_file
\* raises IOError on a directory, which nothing catches here
IsDicomElement(d, raises) ==
    IF ~d.exists THEN NoneValue
    ELSE IF d.isdir /\ raises THEN "IOError"
    ELSE PyBool(d.magic /\ ~Contains(DicomdirLower, Lower(d.name)))

\* all(ls): None counts as False
PyAll(ls) == PyBool(\A i \in 1..Len(ls) : ls[i] = "True")

DicomInit ==
    /\ args = [dcm |-> <<>>, same_size |-> FALSE, single |-> FALSE]
    /\ out = <<>>
    /\ pc = "new"
    /\ exc = "none"
    /\ loop = [raises |-> FALSE]
    /\ fs = [r \in Roots |-> <<>>]
    /\ pkl = NoPkl
    /\ self = PyNone
    /\ hist = RunHist

\* the arguments of a call: one path (a str) or a list of paths
DicomCall(dcm, same_size, single) ==
    /\ pc = "new"
    /\ single => Len(dcm) = 1
    /\ args' = [dcm |-> dcm, same_size |-> same_size, single |-> single]
    /\ pc' = "call"
    /\ UNCHANGED <<fs, pkl, self, loop, exc, out, hist>>

\* is_dicom(dcm, same_size)
IsDicom(raises) ==
    /\ pc = "call"
    /\ loop' = [raises |-> raises]
    /\ IF args.single
       THEN LET r == IsDicomPath(args.dcm[1])
            IN  IF r \in {"True", "False"}
                THEN out' = r /\ pc' = "returned" /\ UNCHANGED exc
                ELSE Raise(r) /\ UNCHANGED out
       ELSE LET ls == [i \in 1..Len(args.dcm) |-> IsDicomElement(args.dcm[i], raises)]
            IN  IF "IOError" \in Range(ls)
                THEN Raise("IOError") /\ UNCHANGED out
                ELSE /\ out' = IF args.same_size THEN ls ELSE PyAll(ls)
                     /\ pc' = "returned"
                     /\ UNCHANGED exc
    /\ UNCHANGED <<fs, pkl, self, args, hist>>

DicomNext ==
    \/ \E dcm \in SeqsOf(DicomPaths, 0, MaxPaths), same_size, single \in BOOLEAN :
           DicomCall(dcm, same_size, single)
    \/ \E raises \in BOOLEAN : IsDicom(raises)

DicomSpec == DicomInit /\ [][DicomNext]_vars

\* the verdict of is_dicom on the single path d, None for a path that does
\* not exist
Verdict(d) == IF d.exists THEN IsDicomPath(d) ELSE NoneValue

\* C25: is_dicom on a list of paths does not raise; with same_size it
\* returns, element by element, what is_dicom returns on the single path
\* (a DICOMDIR file is no DICOM image) and None for a path that does not
\* exist, and without same_size whether all of these are True.
C25_ListAgreesWithSingle ==
    (pc \in {"returned", "raised"} /\ ~args.single) =>
        LET ls == [i \in 1..Len(args.dcm) |-> Verdict(args.dcm[i])]
        IN  /\ pc = "returned"
            /\ out = IF args.same_size THEN ls ELSE PyAll(ls)

-----------------------------------------------------------------------------
(* Preprocessor.__init__ and handle_all, preprocess.py lines 14-101.        *)

\* parent directories of a Preprocessor, patient directories of a parent
\* directory that are not in the store yet, entries of the store given
MaxParents == 2
MaxNew == 2
MaxPrevious == 2

\* no store: diction is None and no pickle file is found
NoStore == -1

\* what pre_check() without action ends in (line 44): True, False, or the
\* ZeroDivisionError of line 443
PreCheckResults == {"True", "False", "ZeroDivisionError"}

\* the results of a Converter (get_results): images converted, images failed
ConvResults == {<<0, 0>>, <<1, 0>>, <<1, 1>>}

NoCounters == [previous |-> 0, anonymized |-> 0, converted |-> 0, failed |-> 0]

\* a parent directory: the number of its patient directories that are not in
\* the store, and how far the pipeline has worked on it
PipeInit ==
    /\ fs \in SeqsOf([new : 0..MaxNew, stage : {"raw"}], 1, MaxParents)
    /\ args \in [pre_check : BOOLEAN, run : BOOLEAN]
    /\ self \in [yes_to_all : BOOLEAN, diction : {NoStore} \cup 1..MaxPrevious]
    /\ pkl = [cwd |-> Absent, logs |-> Absent, given |-> Absent, entries |-> self.diction]
    /\ loop = [i |-> 0, flag |-> TRUE, counters |-> NoCounters]
    /\ out = <<>>
    /\ pc = "init"
    /\ exc = "none"
    /\ hist = [op |-> "none", check |-> "", stages |-> <<>>]

\* lines 43-46: flag = self.pre_check() when pre_check is asked for, which
\* reads the tree and changes nothing without action
PreCheckCall(result) ==
    /\ pc = "init"
    /\ IF args.pre_check
       THEN /\ hist' = [hist EXCEPT !.op = "pre_check", !.stages = Append(@, "pre_check")]
            /\ IF result = "ZeroDivisionError"
               THEN Raise(result) /\ UNCHANGED loop
               ELSE /\ loop' = [loop EXCEPT !.flag = (result = "True")]
                    /\ pc' = "checked"
                    /\ UNCHANGED exc
       ELSE /\ loop' = [loop EXCEPT !.flag = TRUE]
            /\ pc' = "checked"
            /\ UNCHANGED <<hist, exc>>
    /\ UNCHANGED <<fs, pkl, self, args, out>>

\* (mutant) the answer 'n' does not end the constructor
ConfirmRunNotObeyed(check) ==
    /\ pc = "checked"
    /\ IF ~args.run
       THEN pc' = "done" /\ UNCHANGED <<self, hist>>
       ELSE IF ~loop.flag
       THEN /\ self' = [self EXCEPT !.yes_to_all = @ \/ YesToAll(check)]
            /\ hist' = [hist EXCEPT !.op = "confirm", !.check = check]
            /\ pc' = "handle"
       ELSE pc' = "handle" /\ UNCHANGED <<self, hist>>
    /\ UNCHANGED <<fs, pkl, args, loop, exc, out>>

\* lines 48-54: with run, the prompt when pre_check returned False; 'n' ends
\* the constructor, anything else goes on to handle_all
ConfirmRun(check) ==
    /\ pc = "checked"
    /\ IF ~args.run
       THEN pc' = "done" /\ UNCHANGED <<self, hist>>
       ELSE IF ~loop.flag
       THEN /\ self' = [self EXCEPT !.yes_to_all = @ \/ YesToAll(check)]
            /\ hist' = [hist EXCEPT !.op = "confirm", !.check = check]
            /\ pc' = IF check = "n" THEN "done" ELSE "handle"
       ELSE pc' = "handle" /\ UNCHANGED <<self, hist>>
    /\ UNCHANGED <<fs, pkl, args, loop, exc, out>>

\* lines 74-87: one parent directory of handle_all. mri_handler runs an
\* Anonymizer with the store of the Preprocessor (self.diction, which line
\* 183 sets to the store of the Anonymizer before), whose get_results are the
\* entries the store had and has; without a store and without a new patient
\* create_anon_dict fails and the Anonymizer exits. Then the Converter and
\* structure_directories.
HandleParent(conv) ==
    /\ pc = "handle"
    /\ loop.i < Len(fs)
    /\ LET i == loop.i + 1
           had == IF self.diction = NoStore THEN 0 ELSE self.diction
           res == <<had, had + fs[i].new, conv[1], conv[2]>>
           c == loop.counters
       IN  IF self.diction = NoStore /\ fs[i].new = 0
           THEN /\ pc' = "exit"
                /\ hist' = [hist EXCEPT !.op = "anonymize", !.stages = Append(@, "anonymize")]
                /\ UNCHANGED <<fs, pkl, self, loop>>
           ELSE /\ fs' = [fs EXCEPT ![i] = [new |-> 0, stage |-> "structured"]]
                /\ self' = [self EXCEPT !.diction = res[2]]
                /\ pkl' = [pkl EXCEPT !.entries = res[2]]
                /\ loop' = [loop EXCEPT !.i = i,
                               !.counters = [previous |-> res[1],
                                             anonymized |-> c.anonymized + (res[2] - res[1]),
                                             converted |-> c.converted + res[3],
                                             failed |-> c.failed + res[4]]]
                /\ hist' = [hist EXCEPT !.op = "handle",
                               !.stages = @ \o <<"anonymize", "convert", "restructure">>]
                /\ UNCHANGED pc
    /\ UNCHANGED <<args, exc, out>>

\* lines 95-100: the report; the total is printed `if previous`
Report ==
    /\ pc = "handle"
    /\ loop.i = Len(fs)
    /\ LET c == loop.counters
       IN  out' = [previous |-> c.previous, anonymized |-> c.anonymized,
                   shown |-> c.previous # 0, total |-> c.previous + c.anonymized,
                   converted |-> c.converted, failed |-> c.failed]
    /\ pc' = "gather"
    /\ hist' = [hist EXCEPT !.op = "report"]
    /\ UNCHANGED <<fs, pkl, self, args, loop, exc>>

\* line 55: gather_t1 copies the T1 images of every parent directory
GatherT1 ==
    /\ pc = "gather"
    /\ fs' = [i \in 1..Len(fs) |-> [fs[i] EXCEPT !.stage = "selected"]]
    /\ hist' = [hist EXCEPT !.op = "gather_t1", !.stages = Append(@, "gather_t1")]
    /\ pc' = "done"
    /\ UNCHANGED <<pkl, self, args, loop, exc, out>>

PipeNext ==
    \/ \E result \in PreCheckResults : PreCheckCall(result)
    \/ \E check \in Answers : ConfirmRun(check)
    \/ \E conv \in ConvResults : HandleParent(conv)
    \/ Report
    \/ GatherT1

PipeSpec == PipeInit /\ [][PipeNext]_vars

\* C24: in a run with pre_check, pre_check has ended before any of
\* anonymize, convert, restructure and the T1 selection starts, and until
\* then the tree and the store are as they were; when pre_check returned
\* False and the user answers 'n', none of them is performed.
C24_ValidationFirst ==
    /\ []((args.pre_check /\ hist.stages # <<>>) => Head(hist.stages) = "pre_check")
    /\ [][(pc \in {"init", "checked"}) => UNCHANGED <<fs, pkl>>]_vars
    /\ []((hist.op = "confirm" /\ hist.check = "n")
             => pc = "done" /\ hist.stages = <<"pre_check">>)

\* C24 witness: pre_check returned False over a tree with patients to
\* anonymize, the user answered 'n', and the constructor has returned with
\* the tree untouched.
C24_Witness ==
    /\ pc = "done"
    /\ hist.op = "confirm"
    /\ hist.check = "n"
    /\ ~loop.flag
    /\ \E i \in 1..Len(fs) : fs[i].new > 0 /\ fs[i].stage = "raw"
    /\ pkl.entries = self.diction

\* C28: the total of entries that the report of handle_all prints is the
\* number of entries of the store at the end of the run, for one parent
\* directory and for several.
C28_ReportedTotalIsStoreSize ==
    (hist.op \in {"report", "gather_t1"} /\ out.shown) => out.total = pkl.entries

====
